---- MODULE Spec2Model ----
(***************************************************************************)
(* State-machine model of the transaction submission engine of             *)
(* src/lib/solana/transaction-utility.ts: sendTransactionWithRetry, its    *)
(* per-attempt confirmation promise, and the error classifiers; of the     *)
(* mint and send form handlers of src/components/token; and of the looser  *)
(* duplicate of sendTransactionWithRetry in src/unnamed/part_001.          *)
(*                                                                         *)
(* An Error object is modelled by its message (a string); the network, the *)
(* wallet and the timers are the environment, whose answers are drawn from *)
(* small sets.  One action is one run of the code between two awaits.      *)
(***************************************************************************)
EXTENDS Integers, Sequences, FiniteSets, TLC

VARIABLES
    pc,           \* position of sendTransactionWithRetry (which await it is parked on)
    maxRetries,   \* options.maxRetries
    hasSigners,   \* signers.length > 0
    walletPk,     \* wallet.publicKey is present
    faults,       \* fault texts the network / wallet layer may throw in this run
    windows,      \* the windows getLatestBlockhash may answer with in this run
    deadlines,    \* how many more maxTimeout timers may elapse in this run
    options,      \* options.preflightCommitment and options.confirmCommitment
    fetchedAt,    \* the commitment passed to the latest getLatestBlockhash call
    attempt,      \* let attempt
    success,      \* let success
    lastError,    \* let lastError
    signature,    \* let signature
    window,       \* const { blockhash, lastValidBlockHeight } of the current iteration
    tx,           \* the Transaction object passed in
    toasts,       \* react-hot-toast's toasts, in creation order; the id is the index
    confirmToast, \* const confirmToast of the current iteration
    watch,        \* per attempt: the confirmationPromise, its timer and its watcher
    confirmError, \* the error caught at line 162, while its catch block runs
    net,          \* network calls issued so far, per operation
    sent,         \* the latest wallet.sendTransaction call: what was passed
    confirming,   \* the latest confirmTransaction call: what was passed
    delays,       \* backoff delays started so far (line 222-223)
    failed,       \* errors caught at line 194 so far: per stage that threw, and
                  \* how many of them were blockhash errors
    result,       \* the identifier returned, if any
    thrown,       \* the error the call failed with, if any
    rawMessage,   \* the message a classifier is called with
    shown,        \* what the classifier returned for it
    ui,           \* per form (mint, send): its handler's position and React state;
                  \* and the toasts of the page
    history,      \* the transaction history store
    settled,      \* the identifiers mintTokens / transferTokens resolved with
    pair,         \* two calls of sendTransactionWithRetry under way at once
    twin,         \* the two implementations of sendTransactionWithRetry, side by side
    token,        \* a call of sendTokenTransaction and its environment
    minting,      \* a call of mintTokens and its environment
    tracker       \* the module-level toast tracking of components/ui/index.ts

vars == << pc, maxRetries, hasSigners, walletPk, faults, windows, deadlines,
           options, fetchedAt,
           attempt, success,
           lastError, signature, window, tx, toasts, confirmToast, watch,
           confirmError, net, sent, confirming, delays, failed, result,
           thrown, rawMessage, shown, ui, history, settled, pair, twin,
           token, minting, tracker >>

\* The state of sendTransactionWithRetry and of its environment
engine == << pc, maxRetries, hasSigners, walletPk, faults, windows, deadlines,
             options, fetchedAt, attempt, success, lastError, signature,
             window, tx, toasts, confirmToast, watch, confirmError, net, sent,
             confirming, delays, failed, result, thrown >>

\* The state outside sendTransactionWithRetry, which none of its steps reads
\* or writes
apart == << rawMessage, shown, ui, history, settled, pair, twin,
           token, minting, tracker >>

\* The state of the mint and send forms
forms == << ui, history, settled >>

\* Calls of sendTransactionWithRetry set side by side
beside == << pair, twin, token, minting, tracker >>

\* The other library functions: sendTokenTransaction, mintTokens and the toast
\* tracking
library == << token, minting, tracker >>

\* The caller's inputs, which no step changes, and the state outside the call
config == << maxRetries, hasSigners, faults, windows, options, apart >>

\* Everything but the confirmation promises and the network call counts
main == << config, fetchedAt, pc, walletPk, attempt, success, lastError, signature, window,
           tx, toasts, confirmToast, confirmError, sent, confirming, delays,
           failed, result, thrown >>

-----------------------------------------------------------------------------
(* Bounds of the model *)

\* maxRetries is drawn from 0..MaxRetries
MaxRetries == 3
\* maxRetries of the long runs that reach the backoff cap
DeepRetries == 6
\* getLatestBlockhash answers with one of the windows 1..NumWindows
NumWindows == 2
\* at most MaxTimeouts confirmation deadlines elapse in one run
MaxTimeouts == 1
\* and at most DeepTimeouts in a long run
DeepTimeouts == 1
\* the long messages given to the classifiers have more than LongLen characters
LongLen == 101
\* options.maxRetries is drawn from 0 .. LiveRetries under SpecLive
LiveRetries == 2

-----------------------------------------------------------------------------
(* Strings *)

Min(a, b) == IF a < b THEN a ELSE b

\* String.prototype.includes
Includes(s, m) ==
    \E i \in 1..(Len(s) - Len(m) + 1) : SubSeq(s, i, i + Len(m) - 1) = m

UpperToLower ==
    "A" :> "a" @@ "B" :> "b" @@ "C" :> "c" @@ "D" :> "d" @@ "E" :> "e" @@
    "F" :> "f" @@ "G" :> "g" @@ "H" :> "h" @@ "I" :> "i" @@ "J" :> "j" @@
    "K" :> "k" @@ "L" :> "l" @@ "M" :> "m" @@ "N" :> "n" @@ "O" :> "o" @@
    "P" :> "p" @@ "Q" :> "q" @@ "R" :> "r" @@ "S" :> "s" @@ "T" :> "t" @@
    "U" :> "u" @@ "V" :> "v" @@ "W" :> "w" @@ "X" :> "x" @@ "Y" :> "y" @@
    "Z" :> "z"

\* String.prototype.toLowerCase: low[<<i, j>>] is the lower-cased text of the
\* characters i .. j, put together from its two halves
ToLowerCase(s) ==
    LET low[r \in (1 .. Len(s) + 1) \X (0 .. Len(s))] ==
            IF r[1] > r[2] THEN ""
            ELSE IF r[1] = r[2]
            THEN LET c == SubSeq(s, r[1], r[1])
                 IN  IF c \in DOMAIN UpperToLower THEN UpperToLower[c] ELSE c
            ELSE LET mid == (r[1] + r[2]) \div 2
                 IN  low[<< r[1], mid >>] \o low[<< mid + 1, r[2] >>]
    IN  low[<< 1, Len(s) >>]

\* String.prototype.slice(0, n)
Slice0(s, n) == SubSeq(s, 1, Min(n, Len(s)))

\* lastError = null, no error thrown, no identifier returned
Null == "<null>"

-----------------------------------------------------------------------------
(* Errors and their classification *)

\* Mutant: the 'wallet adapter' marker is not looked for
IsWalletError_NoAdapter(msg) ==
    \/ Includes(msg, "Wallet is not connected")
    \/ Includes(msg, "Wallet disconnected")

\* error.message?.includes(...) of lines 199-202
IsWalletError(msg) ==
    \/ Includes(msg, "Wallet is not connected")
    \/ Includes(msg, "Wallet disconnected")
    \/ Includes(msg, "wallet adapter")

\* lines 211-214
IsBlockhashError(msg) ==
    \/ Includes(msg, "block height exceeded")
    \/ Includes(msg, "blockhash not found")
    \/ Includes(msg, "invalid blockhash")

\* Mutant: the last attempt is retried too
ShouldRetry_OffByOne(att, max, msg) ==
    att <= max /\ (IsBlockhashError(msg) \/ Includes(msg, "timeout"))

\* Mutant: every fault is retried while attempts remain
ShouldRetry_Always(att, max, msg) == att < max

\* the condition of line 217
ShouldRetry(att, max, msg) ==
    att < max /\ (IsBlockhashError(msg) \/ Includes(msg, "timeout"))

\* the condition of lines 164-167
IsExpiryOnConfirm(msg) ==
    /\ msg # ""
    /\ \/ Includes(msg, "block height exceeded")
       \/ Includes(msg, "blockhash not found")

BackoffBase == 1000
BackoffCap == 8000

\* Mutant: the delay is not capped
BackoffDelay_NoCap(att) == BackoffBase * 2 ^ (att - 1)

\* line 222: Math.min(1000 * Math.pow(2, attempt - 1), 8000)
BackoffDelay(att) == Min(BackoffBase * 2 ^ (att - 1), BackoffCap)

SliceLimit == 100

\* getErrorMessage, lines 266-292; the argument is the Error's message
getErrorMessage(error) ==
    LET message == IF error = "" THEN "Error" ELSE error
    IN  IF Includes(message, "block height exceeded")
            THEN "Transaction took too long to confirm. Please try again."
        ELSE IF Includes(message, "blockhash not found")
            THEN "Transaction expired. Please try again."
        ELSE IF Includes(message, "insufficient funds")
            THEN "Insufficient funds for transaction."
        ELSE IF Includes(message, "rejected")
            THEN "Transaction rejected by user."
        ELSE IF Includes(message, "user rejected")
            THEN "You declined the transaction. Please try again."
        ELSE IF Includes(message, "already in use")
            THEN "This transaction was already processed."
        ELSE IF Includes(message, "invalid account owner")
            THEN "Invalid account owner."
        ELSE IF Includes(ToLowerCase(message), "timeout")
            THEN "Network timeout. Solana may be congested, please try again."
        ELSE "Transaction error: " \o Slice0(message, SliceLimit)
                \o (IF Len(message) > SliceLimit THEN "..." ELSE "")

NotConnectedText ==
    "Wallet is not connected. Please connect your wallet and try again."
DisconnectedText == "Wallet disconnected. Please reconnect and try again."
ConfirmTimeoutText == "Transaction confirmation timeout"
UnknownReasonText == "Transaction failed for unknown reason"

\* JSON.stringify(confirmation.value.err) of a program-level error
ProgramErrJson == "{\"InstructionError\":[0,{\"Custom\":1}]}"
ConfirmedButFailedText == "Transaction confirmed but failed: " \o ProgramErrJson

\* Fault texts the network and the wallet adapter throw
FaultTexts ==
    { "blockhash not found",
      "invalid blockhash",
      "insufficient funds for rent",
      "Request Timeout",
      "wallet adapter timeout" }

-----------------------------------------------------------------------------
(* Notifications: toast.loading / success / error / dismiss *)

PreparingText == "Preparing transaction..."
ConfirmingText == "Confirming transaction... Please wait."
VerifyingText == "Verifying transaction status..."
SuccessText == "Transaction confirmed successfully!"
WalletErrorText ==
    "Wallet connection error. Please reconnect your wallet and try again."
ApproveText(att, max) ==
    "Please approve transaction in your wallet (Attempt " \o ToString(att)
        \o "/" \o ToString(max) \o ")..."
RetryingText(att, max) ==
    "Transaction expired. Retrying with fresh blockhash (" \o ToString(att)
        \o "/" \o ToString(max) \o ")..."

Toast(ts, kind, msg) ==
    Append(ts, [kind |-> kind, msg |-> msg, active |-> TRUE])

Dismiss(ts, id) ==
    [i \in DOMAIN ts |->
        IF i = id THEN [ts[i] EXCEPT !.active = FALSE] ELSE ts[i]]

\* const loadingToast = toast.loading(...): the first toast of the submission
loadingToast == 1

\* Mutant: success is reported once more after the dismissal
ReportSuccess_Twice(ts, id) ==
    Toast(Toast(Dismiss(ts, id), "success", SuccessText), "success", SuccessText)

\* lines 158-159 and 181-182
ReportSuccess(ts, id) == Toast(Dismiss(ts, id), "success", SuccessText)

-----------------------------------------------------------------------------
(* The transaction, the validity window and the environment's answers *)

\* What getLatestBlockhash resolves with
Windows ==
    { [blockhash |-> b, lastValidBlockHeight |-> 150 + b] : b \in 1..NumWindows }

NoWindow == [blockhash |-> 0, lastValidBlockHeight |-> 0]

\* Mutant: the window is bound on the first attempt only
BindWindow_FirstOnly(t, w) ==
    IF t.recentBlockhash = 0
    THEN [t EXCEPT !.recentBlockhash = w.blockhash,
                   !.lastValidBlockHeight = w.lastValidBlockHeight]
    ELSE t

\* lines 70-71: transaction.recentBlockhash / lastValidBlockHeight
BindWindow(t, w) ==
    [t EXCEPT !.recentBlockhash = w.blockhash,
              !.lastValidBlockHeight = w.lastValidBlockHeight]

\* Mutant: the fee payer is not set
SetFeePayer_Never(t, pk) == t

\* line 74: transaction.feePayer = wallet.publicKey
SetFeePayer(t, pk) == [t EXCEPT !.feePayer = IF pk THEN "wallet" ELSE Null]

\* Mutant: the co-signers sign on the first attempt only
SignWith_Once(t, signers) ==
    IF signers /\ t.signedOver = 0
    THEN [t EXCEPT !.signedOver = t.recentBlockhash]
    ELSE t

\* lines 77-79: transaction.sign(...signers) signs the message as it is now
SignWith(t, signers) ==
    IF signers THEN [t EXCEPT !.signedOver = t.recentBlockhash] ELSE t

\* The identifier wallet.sendTransaction resolves with: the fee payer's
\* signature over the message, hence a function of the window bound to it
SignatureOf(t) == "sig-" \o ToString(t.recentBlockhash)

\* The commitment levels of the network
Commitments == { "processed", "confirmed", "finalized" }

\* lines 41-42: the defaults of preflightCommitment and confirmCommitment
DefaultOptions ==
    [preflightCommitment |-> "processed", confirmCommitment |-> "confirmed"]

\* Mutant: the window is fetched at the caller's preflight commitment
FetchCommitment_Passthrough(opts) == opts.preflightCommitment

\* line 66: commitment: 'finalized'
FetchCommitment(opts) == "finalized"

\* What getSignatureStatus resolves with: null, or a value with or without err
Statuses == { "null", "ok", "err" }

\* Mutant: the fallback lookup is never taken as a confirmation
StatusConfirmed_Never(status) == FALSE

\* lines 135 and 178: status && status.value && !status.value.err
StatusConfirmed(status) == status = "ok"

\* Mutant: the check at call time is missing
WalletAbsentAtCall_Unchecked(pk) == FALSE

\* Mutant: the check before the send is missing
WalletAbsentBeforeSend_Unchecked(pk) == FALSE

\* line 54: if (!wallet.publicKey)
WalletAbsentAtCall(pk) == ~pk

\* line 85: if (!wallet.publicKey)
WalletAbsentBeforeSend(pk) == ~pk

-----------------------------------------------------------------------------
(* The confirmation promise of one attempt: lines 102-150 *)

\* Mutant: a later resolve / reject settles the promise again
Settle_Again(w, how, why) == [w EXCEPT !.promise = how, !.reason = why]

\* resolve / reject settle a promise once; later calls change nothing
Settle(w, how, why) ==
    IF w.promise = "pending"
    THEN [w EXCEPT !.promise = how, !.reason = why]
    ELSE w

\* The error caught at line 127 is used by reject(error) alone (line 147),
\* which does nothing once the promise is settled: an error caught after
\* the promise was settled is not kept
Caught(w, msg) == IF w.promise = "pending" THEN msg ELSE "unused"

\* clearTimeout(timeoutId): a timer that has fired stays fired
ClearTimer(w) ==
    IF w.timer = "armed" THEN [w EXCEPT !.timer = "cleared"] ELSE w

\* inner: where the async watcher of lines 109-149 is parked; caught: the error
\* of line 127; lookup: the answer to line 131
NewWatch ==
    [ inner |-> "confirm", timer |-> "armed", promise |-> "pending",
      reason |-> Null, caught |-> Null, lookup |-> Null ]

\* The watcher of attempt k has run to its end.  The promise and the closure
\* of an attempt are locals of its loop iteration: they are kept while that
\* iteration is the current one, and while the watcher still runs
Finish(k, w) ==
    IF k = attempt
    THEN (k :> [w EXCEPT !.inner = "done"]) @@ watch
    ELSE [j \in DOMAIN watch \ {k} |-> watch[j]]

\* A new iteration begins: the finished watchers of earlier ones are gone
Running ==
    LET live == { j \in DOMAIN watch : watch[j].inner # "done" }
    IN  [j \in live |-> watch[j]]

-----------------------------------------------------------------------------
(* sendTransactionWithRetry, lines 28-237 *)

NoSend ==
    [attempt |-> 0, fetched |-> NoWindow, tx |-> Null, signature |-> Null,
     preflightCommitment |-> Null]
NoConfirm ==
    [signature |-> Null, blockhash |-> 0, lastValidBlockHeight |-> 0,
     commitment |-> Null]

InitCommon ==
    /\ pc = "start"
    /\ attempt = 0
    /\ success = FALSE
    /\ lastError = Null
    /\ signature = ""
    /\ window = NoWindow
    /\ tx = [ recentBlockhash |-> 0, lastValidBlockHeight |-> 0,
              feePayer |-> Null, signedOver |-> 0,
              instructions |-> << "ix1", "ix2" >> ]
    /\ toasts = << >>
    /\ confirmToast = 0
    /\ watch = << >>
    /\ confirmError = Null
    /\ net = [fetch |-> 0, send |-> 0, confirm |-> 0, status |-> 0]
    /\ sent = NoSend
    /\ confirming = NoConfirm
    /\ delays = << >>
    /\ failed = [wallet |-> 0, fetch |-> 0, send |-> 0, confirm |-> 0,
                 expiry |-> 0]
    /\ result = Null
    /\ thrown = Null
    /\ fetchedAt = Null

\* No classifier has answered
NoAnswer == [by |-> Null, text |-> Null]

\* No classifier call is under way
ClassifierIdle == rawMessage = Null /\ shown = NoAnswer

\* The forms of one page: token-minter.tsx and token-sender.tsx
Components == { "mint", "send" }

\* useState(...) of token-minter.tsx lines 66-72 and token-sender.tsx lines
\* 30-35, and no handler running
FreshForm ==
    [ pc |-> "idle", isLoading |-> FALSE, signature |-> Null, amount |-> "",
      runs |-> 0, args |-> Null ]

\* Nothing was submitted, no toast was shown
FormsIdle ==
    /\ ui = [mint |-> FreshForm, send |-> FreshForm, toasts |-> << >>]
    /\ history = << >>
    /\ settled = << >>

\* No calls are set side by side
PairIdle == pair = Null
TwinIdle == twin = Null

\* No other library function is under way
LibraryIdle == token = Null /\ minting = Null /\ tracker = Null

\* Nothing runs beside sendTransactionWithRetry
Aside == ClassifierIdle /\ FormsIdle /\ PairIdle /\ TwinIdle /\ LibraryIdle

Init ==
    /\ InitCommon
    /\ Aside
    /\ maxRetries \in 0..MaxRetries
    /\ hasSigners \in BOOLEAN
    /\ walletPk \in BOOLEAN
    /\ faults = FaultTexts
    /\ windows = Windows
    /\ deadlines = MaxTimeouts
    /\ options = DefaultOptions

\* Mutant: the loop does not test attempt < maxRetries
LoopHead_Unbounded(ts) ==
    /\ attempt' = attempt + 1
    /\ net' = [net EXCEPT !.fetch = @ + 1]
    /\ fetchedAt' = FetchCommitment(options)
    /\ pc' = "fetch"
    /\ toasts' = ts
    /\ thrown' = thrown
    /\ watch' = Running

\* The head of the while loop (line 59) up to the await of line 65, or the
\* code after the loop (lines 234-236); ts is the toast list so far
LoopHead(ts) ==
    IF attempt < maxRetries /\ ~success
    THEN /\ attempt' = attempt + 1
         /\ net' = [net EXCEPT !.fetch = @ + 1]
         /\ fetchedAt' = FetchCommitment(options)
         /\ pc' = "fetch"
         /\ toasts' = ts
         /\ thrown' = thrown
         /\ watch' = Running
    ELSE /\ toasts' = Dismiss(ts, loadingToast)
         /\ thrown' = IF lastError # Null THEN lastError ELSE UnknownReasonText
         /\ pc' = "thrown"
         /\ attempt' = attempt
         /\ net' = net
         /\ fetchedAt' = fetchedAt
         /\ watch' = watch

\* Mutant: only the first error is remembered
Remember_First(last, error) == IF last = Null THEN error ELSE last

\* line 195: lastError = error
Remember(last, error) == error

\* The catch block of lines 194-231 for the error err, thrown at the given
\* stage of the iteration; ts is the toast list so far
CatchBlock(err, ts, stage) ==
    /\ lastError' = Remember(lastError, err)
    /\ failed' = [failed EXCEPT
            ![stage] = @ + 1,
            !.expiry = IF IsBlockhashError(err) /\ ~IsWalletError(err)
                       THEN @ + 1 ELSE @]
    /\ IF IsWalletError(err)
       THEN /\ toasts' = Toast(Dismiss(ts, loadingToast), "error", WalletErrorText)
            /\ thrown' = err
            /\ pc' = "thrown"
            /\ delays' = delays
       ELSE IF ShouldRetry(attempt, maxRetries, err)
       THEN /\ toasts' = Toast(Dismiss(ts, loadingToast), "loading",
                               RetryingText(attempt, maxRetries))
            /\ delays' = Append(delays, BackoffDelay(attempt))
            /\ pc' = "backoff"
            /\ thrown' = thrown
       ELSE /\ toasts' = Toast(Dismiss(ts, loadingToast), "error",
                               getErrorMessage(err))
            /\ thrown' = err
            /\ pc' = "thrown"
            /\ delays' = delays

\* lines 46-65: the call, up to the first await
Call ==
    /\ pc = "start"
    /\ LET ts == Toast(toasts, "loading", PreparingText)
       IN  IF WalletAbsentAtCall(walletPk)
           THEN /\ toasts' = Dismiss(ts, loadingToast)
                /\ thrown' = NotConnectedText
                /\ pc' = "thrown"
                /\ UNCHANGED << attempt, net, watch, fetchedAt >>
           ELSE LoopHead(ts)
    /\ UNCHANGED << deadlines, config, walletPk, success, lastError, signature, window, tx,
                    confirmToast, confirmError, sent, confirming, delays,
                    result, failed >>

\* lines 65-94: getLatestBlockhash resolves with w
FetchReturns(w) ==
    /\ pc = "fetch"
    /\ LET t  == SignWith(SetFeePayer(BindWindow(tx, w), walletPk), hasSigners)
           ts == Toast(Dismiss(toasts, loadingToast), "loading",
                       ApproveText(attempt, maxRetries))
       IN  /\ tx' = t
           /\ IF WalletAbsentBeforeSend(walletPk)
              THEN /\ CatchBlock(DisconnectedText, ts, "wallet")
                   /\ UNCHANGED << net, sent, window >>
              ELSE /\ net' = [net EXCEPT !.send = @ + 1]
                   /\ sent' = [attempt |-> attempt, fetched |-> w, tx |-> t,
                               signature |-> Null,
                               preflightCommitment |->
                                   options.preflightCommitment]
                   /\ window' = w
                   /\ toasts' = ts
                   /\ pc' = "send"
                   /\ UNCHANGED << lastError, thrown, delays, failed >>
    /\ UNCHANGED << fetchedAt, deadlines, config, walletPk, attempt, success, signature, confirmToast,
                    watch, confirmError, confirming, result >>

\* line 65: getLatestBlockhash throws
FetchThrows(msg) ==
    /\ pc = "fetch"
    /\ CatchBlock(msg, toasts, "fetch")
    /\ UNCHANGED << fetchedAt, deadlines, config, walletPk, attempt, success, signature, window, tx,
                    confirmToast, watch, confirmError, net, sent, confirming,
                    result >>

\* lines 90-154: wallet.sendTransaction resolves; the confirmation promise is
\* created, its timer armed and confirmTransaction called
SendReturns ==
    /\ pc = "send"
    /\ LET sig == SignatureOf(sent.tx)
           ts  == Toast(Dismiss(toasts, loadingToast), "loading", ConfirmingText)
       IN  /\ signature' = sig
           /\ sent' = [sent EXCEPT !.signature = sig]
           /\ toasts' = ts
           /\ confirmToast' = Len(ts)
           /\ confirming' = [ signature |-> sig, blockhash |-> window.blockhash,
                              lastValidBlockHeight |-> window.lastValidBlockHeight,
                              commitment |-> options.confirmCommitment ]
    /\ watch' = (attempt :> NewWatch) @@ watch
    /\ net' = [net EXCEPT !.confirm = @ + 1]
    /\ pc' = "await"
    /\ UNCHANGED << fetchedAt, deadlines, config, walletPk, attempt, success, lastError, window, tx,
                    confirmError, delays, result, thrown, failed >>

\* line 90: wallet.sendTransaction throws; the iteration's locals go out of scope
SendThrows(msg) ==
    /\ pc = "send"
    /\ CatchBlock(msg, toasts, "send")
    /\ window' = NoWindow
    /\ UNCHANGED << fetchedAt, deadlines, config, walletPk, attempt, success, signature, tx,
                    confirmToast, watch, confirmError, net, sent, confirming,
                    result >>

\* lines 113-126: confirmTransaction of watcher k resolves; err says whether
\* confirmation.value.err is set
ConfirmReturns(k, err) ==
    /\ k \in DOMAIN watch
    /\ watch[k].inner = "confirm"
    /\ watch' = Finish(k, Settle(ClearTimer(watch[k]),
                                  IF err THEN "rejected" ELSE "resolved",
                                  IF err THEN ConfirmedButFailedText ELSE Null))
    /\ UNCHANGED << deadlines, main, net >>

\* lines 127-133: confirmTransaction of watcher k throws; the catch block calls
\* getSignatureStatus
ConfirmThrows(k, msg) ==
    /\ k \in DOMAIN watch
    /\ watch[k].inner = "confirm"
    /\ watch' = [watch EXCEPT ![k] =
            [@ EXCEPT !.inner = "status", !.caught = Caught(watch[k], msg)]]
    /\ net' = [net EXCEPT !.status = @ + 1]
    /\ UNCHANGED << deadlines, main >>

\* lines 135-147: getSignatureStatus of watcher k resolves with status
StatusReturns(k, status) ==
    /\ k \in DOMAIN watch
    /\ watch[k].inner = "status"
    /\ LET w == [watch[k] EXCEPT !.lookup = status]
       IN  watch' = Finish(k, IF StatusConfirmed(status)
                              THEN Settle(ClearTimer(w), "resolved", Null)
                              ELSE Settle(ClearTimer(w), "rejected", w.caught))
    /\ UNCHANGED << deadlines, main, net >>

\* lines 141-147: getSignatureStatus of watcher k throws
StatusThrows(k) ==
    /\ k \in DOMAIN watch
    /\ watch[k].inner = "status"
    /\ LET w == [watch[k] EXCEPT !.lookup = "threw"]
       IN  watch' = Finish(k, Settle(ClearTimer(w), "rejected", w.caught))
    /\ UNCHANGED << deadlines, main, net >>

\* Mutant: the timer never fires
TimerFires_Never(k) == FALSE /\ UNCHANGED vars

\* lines 104-106: the maxTimeout timer of watcher k fires
TimerFires(k) ==
    /\ k \in DOMAIN watch
    /\ watch[k].timer = "armed"
    /\ deadlines > 0
    /\ deadlines' = deadlines - 1
    /\ watch' = [watch EXCEPT ![k] =
            [ Settle(@, "rejected", ConfirmTimeoutText) EXCEPT !.timer = "fired" ]]
    /\ UNCHANGED << main, net >>

\* lines 154-161: the awaited promise is resolved
AwaitResolved ==
    /\ pc = "await"
    /\ watch[attempt].promise = "resolved"
    /\ success' = TRUE
    /\ toasts' = ReportSuccess(toasts, confirmToast)
    /\ result' = signature
    /\ pc' = "returned"
    /\ window' = NoWindow
    /\ confirmToast' = 0
    /\ UNCHANGED << fetchedAt, deadlines, config, walletPk, attempt, lastError, signature, tx, watch,
                    confirmError, net, sent, confirming, delays, thrown, failed >>

\* lines 162-171 and 192: the awaited promise is rejected
AwaitRejected ==
    /\ pc = "await"
    /\ watch[attempt].promise = "rejected"
    /\ LET why == watch[attempt].reason
       IN  IF IsExpiryOnConfirm(why)
           THEN /\ confirmError' = why
                /\ toasts' = Toast(toasts, "loading", VerifyingText)
                /\ pc' = "verifyDelay"
                /\ UNCHANGED << lastError, thrown, delays, window, confirmToast,
                                failed >>
           ELSE /\ confirmError' = Null
                /\ window' = NoWindow
                /\ confirmToast' = 0
                /\ CatchBlock(why, toasts, "confirm")
    /\ UNCHANGED << fetchedAt, deadlines, config, walletPk, attempt, success, signature, tx, watch, net,
                    sent, confirming, result >>

\* lines 171-176: the 2000 ms delay is over, getSignatureStatus is called
VerifyDelayDone ==
    /\ pc = "verifyDelay"
    /\ net' = [net EXCEPT !.status = @ + 1]
    /\ pc' = "verify"
    /\ UNCHANGED << fetchedAt, deadlines, config, walletPk, attempt, success, lastError, signature,
                    window, tx, toasts, confirmToast, watch, confirmError, sent,
                    confirming, delays, result, thrown, failed >>

\* lines 174-192: getSignatureStatus resolves with status
VerifyReturns(status) ==
    /\ pc = "verify"
    /\ IF StatusConfirmed(status)
       THEN /\ success' = TRUE
            /\ toasts' = ReportSuccess(toasts, confirmToast)
            /\ result' = signature
            /\ pc' = "returned"
            /\ UNCHANGED << lastError, thrown, delays, failed >>
       ELSE /\ CatchBlock(confirmError, toasts, "confirm")
            /\ UNCHANGED << success, result >>
    /\ confirmError' = Null
    /\ window' = NoWindow
    /\ confirmToast' = 0
    /\ UNCHANGED << fetchedAt, deadlines, config, walletPk, attempt, signature, tx, watch, net, sent,
                    confirming >>

\* lines 185-192: getSignatureStatus throws
VerifyThrows ==
    /\ pc = "verify"
    /\ CatchBlock(confirmError, toasts, "confirm")
    /\ confirmError' = Null
    /\ window' = NoWindow
    /\ confirmToast' = 0
    /\ UNCHANGED << fetchedAt, deadlines, config, walletPk, attempt, success, signature, tx, watch, net,
                    sent, confirming, result >>

\* line 223 and the loop head: the backoff delay is over
BackoffDone ==
    /\ pc = "backoff"
    /\ LoopHead(toasts)
    /\ UNCHANGED << deadlines, config, walletPk, success, lastError, signature, window, tx,
                    confirmToast, confirmError, sent, confirming, delays,
                    result, failed >>

\* The wallet disconnects.  wallet.publicKey is read at lines 54, 74 and 85
\* only, so a disconnect at any await of an iteration is seen as one at the
\* next await of line 65
Disconnect ==
    /\ pc = "fetch"
    /\ walletPk
    /\ walletPk' = FALSE
    /\ UNCHANGED << fetchedAt, deadlines, config, pc, attempt, success, lastError, signature, window,
                    tx, toasts, confirmToast, watch, confirmError, net, sent,
                    confirming, delays, result, thrown, failed >>

Next ==
    \/ Call
    \/ \E w \in windows : FetchReturns(w)
    \/ \E msg \in faults : FetchThrows(msg)
    \/ SendReturns
    \/ \E msg \in faults : SendThrows(msg)
    \/ \E k \in DOMAIN watch, err \in BOOLEAN : ConfirmReturns(k, err)
    \/ \E k \in DOMAIN watch, msg \in faults : ConfirmThrows(k, msg)
    \/ \E k \in DOMAIN watch, status \in Statuses : StatusReturns(k, status)
    \/ \E k \in DOMAIN watch : StatusThrows(k)
    \/ \E k \in DOMAIN watch : TimerFires(k)
    \/ AwaitResolved
    \/ AwaitRejected
    \/ VerifyDelayDone
    \/ \E status \in Statuses : VerifyReturns(status)
    \/ VerifyThrows
    \/ BackoffDone
    \/ Disconnect

Spec == Init /\ [][Next]_vars

\* Long runs: many retries and no co-signers, against a network whose only
\* fault is an expired blockhash and whose latest blockhash does not change
InitDeep ==
    /\ InitCommon
    /\ Aside
    /\ maxRetries = DeepRetries
    /\ hasSigners = FALSE
    /\ walletPk = TRUE
    /\ faults = { "blockhash not found" }
    /\ windows = { [blockhash |-> 1, lastValidBlockHeight |-> 151] }
    /\ deadlines = DeepTimeouts
    /\ options = DefaultOptions

SpecDeep == InitDeep /\ [][Next]_vars

\* Runs in which every attempt may reach its deadline
InitLive ==
    /\ InitCommon
    /\ Aside
    /\ maxRetries \in 0 .. LiveRetries
    /\ hasSigners = FALSE
    /\ walletPk \in BOOLEAN
    /\ faults = { "blockhash not found", "insufficient funds for rent" }
    /\ windows = { [blockhash |-> 1, lastValidBlockHeight |-> 151] }
    /\ deadlines = maxRetries
    /\ options \in [preflightCommitment : Commitments,
                     confirmCommitment : Commitments]

\* The event loop runs the continuation of a settled promise; every
\* getLatestBlockhash, wallet.sendTransaction and getSignatureStatus call
\* returns or throws; every timer that is not cleared fires.  Nothing is
\* assumed of confirmTransaction
Fairness ==
    /\ WF_vars(Call)
    /\ WF_vars((\E w \in windows : FetchReturns(w))
                  \/ (\E msg \in faults : FetchThrows(msg)))
    /\ WF_vars(SendReturns \/ (\E msg \in faults : SendThrows(msg)))
    /\ \A k \in 1 .. LiveRetries :
          /\ WF_vars((\E status \in Statuses : StatusReturns(k, status))
                        \/ StatusThrows(k))
          /\ WF_vars(TimerFires(k))
    /\ WF_vars(AwaitResolved \/ AwaitRejected)
    /\ WF_vars(VerifyDelayDone)
    /\ WF_vars((\E status \in Statuses : VerifyReturns(status)) \/ VerifyThrows)
    /\ WF_vars(BackoffDone)

SpecLive == InitLive /\ [][Next]_vars /\ Fairness

-----------------------------------------------------------------------------
(* The classifiers as functions of the raw message: getErrorMessage (lines
   266-292) and getErrorForTransaction (lines 297-350) *)

\* No call of sendTransactionWithRetry is under way
EngineIdle ==
    /\ InitCommon
    /\ maxRetries = 0
    /\ hasSigners = FALSE
    /\ walletPk = TRUE
    /\ faults = { }
    /\ windows = { }
    /\ deadlines = 0
    /\ options = DefaultOptions

\* lines 299-326: errorMap, in insertion order
errorMap ==
    << << "Attempt to debit an account but found no record of a prior credit",
          "Insufficient funds for transaction" >>,
       << "insufficient funds",
          "Insufficient SOL balance to pay for transaction fees" >>,
       << "not the mint authority",
          "Your wallet is not the mint authority for this token" >>,
       << "already in use",
          "This token already exists. Use a different mint address." >>,
       << "Program failed to complete", "Transaction failed to process" >>,
       << "Transaction was not confirmed",
          "Transaction was not confirmed within the timeout period" >>,
       << "blockhash not found",
          "Transaction blockhash expired. Please try again." >>,
       << "RPC request error",
          "Network connection error. Please check your internet connection." >>,
       << "Token account does not exist",
          "Token account not found. It may need to be created first." >>,
       << "No token mint specified", "No token mint address was provided" >>,
       << "Invalid program id", "Invalid program ID used in the transaction" >>,
       << "nonce is stale",
          "Transaction nonce is stale. Please retry with a fresh nonce." >>,
       << "Signature verification failed",
          "Transaction signature verification failed. Please check your wallet connection." >> >>

\* getErrorForTransaction, lines 297-350: the exact match (line 332), the
\* partial matches in insertion order (337-341), the extra rule (344-346) and
\* the fallback (349)
getErrorForTransaction(raw) ==
    LET exact   == { i \in DOMAIN errorMap : errorMap[i][1] = raw }
        partial == { i \in DOMAIN errorMap : Includes(raw, errorMap[i][1]) }
        first(S) == CHOOSE i \in S : \A j \in S : i <= j
    IN  IF exact # { } THEN errorMap[first(exact)][2]
        ELSE IF partial # { } THEN errorMap[first(partial)][2]
        ELSE IF Includes(raw, "Attempt to load an invalid account")
            THEN "Invalid account specified in transaction. Please check all addresses."
        ELSE "Transaction failed: " \o raw

\* A text of n characters that matches no rule
Filler(n) ==
    LET rep[i \in 0 .. n] ==
            IF i = 0 THEN ""
            ELSE IF i % 2 = 0 THEN rep[i \div 2] \o rep[i \div 2]
            ELSE rep[i - 1] \o "x"
    IN  rep[n]

\* Fault texts: what the rules look for, alone and in pairs
Marks ==
    { "", "block height exceeded", "blockhash not found", "insufficient funds",
      "rejected", "user rejected", "already in use", "invalid account owner",
      "Request Timeout", "timeout", "custom program error: 0x1",
      "not the mint authority", "Program failed to complete",
      "Transaction was not confirmed", "RPC request error",
      "Token account does not exist", "nonce is stale",
      "Attempt to load an invalid account",
      "already in use: insufficient funds",
      "blockhash not found after block height exceeded",
      "Signature verification failed: nonce is stale" }

\* The messages the classifiers are called with: short ones, and ones longer
\* than LongLen characters
RawMessages ==
    { pre \o mark \o post :
        pre \in { "", "failed to send transaction: " },
        mark \in Marks,
        post \in { "", Filler(LongLen) } }

InitClassify ==
    /\ EngineIdle
    /\ FormsIdle
    /\ PairIdle
    /\ TwinIdle
    /\ LibraryIdle
    /\ rawMessage \in RawMessages
    /\ shown = NoAnswer

\* toast.error(getErrorMessage(error)) with error.message = rawMessage
CallGetErrorMessage ==
    /\ rawMessage # Null
    /\ shown' = [by |-> "getErrorMessage", text |-> getErrorMessage(rawMessage)]
    /\ UNCHANGED << engine, forms, beside, rawMessage >>

CallGetErrorForTransaction ==
    /\ rawMessage # Null
    /\ shown' = [by |-> "getErrorForTransaction",
                 text |-> getErrorForTransaction(rawMessage)]
    /\ UNCHANGED << engine, forms, beside, rawMessage >>

NextClassify == CallGetErrorMessage \/ CallGetErrorForTransaction

SpecClassify == InitClassify /\ [][NextClassify]_vars

-----------------------------------------------------------------------------
(* The form handlers: mintToken (token-minter.tsx lines 136-257) and
   sendToken (token-sender.tsx lines 37-136) *)

\* at most MaxRuns submissions of each form
MaxRuns == 2

DigitValue ==
    "0" :> 0 @@ "1" :> 1 @@ "2" :> 2 @@ "3" :> 3 @@ "4" :> 4 @@
    "5" :> 5 @@ "6" :> 6 @@ "7" :> 7 @@ "8" :> 8 @@ "9" :> 9

\* parseFloat on texts without blanks, fraction or exponent: an optional
\* minus sign and the longest run of digits after it; NaN when that is empty
ParseFloat(text) ==
    LET neg  == Len(text) > 0 /\ SubSeq(text, 1, 1) = "-"
        from == IF neg THEN 2 ELSE 1
        IsDigit(i) == i <= Len(text) /\ SubSeq(text, i, i) \in DOMAIN DigitValue
        run[i \in from .. Len(text) + 1] == IF IsDigit(i) THEN run[i + 1] ELSE i - 1
        stop == run[from]
        val[i \in (from - 1) .. stop] ==
            IF i < from THEN 0
            ELSE val[i - 1] * 10 + DigitValue[SubSeq(text, i, i)]
    IN  IF stop < from
        THEN [nan |-> TRUE, value |-> 0]
        ELSE [nan |-> FALSE, value |-> (IF neg THEN 0 - val[stop] ELSE val[stop])]

\* isNaN(amountNum) || amountNum <= 0
BadAmount(text) == ParseFloat(text).nan \/ ParseFloat(text).value <= 0

\* new PublicKey(address) throws unless the address is a base58 key
IsAddress(address) == address \in { "MintA", "RecipB" }

\* What the user and the wallet adapter present to a handler when the form is
\* submitted
Amounts == { "", "abc", "0", "-1", "5", "12abc" }

MintInputs ==
    [ publicKey : { Null, "WalletPk" },
      mintAddress : { "", "MintA", "not-base58" },
      amount : Amounts,
      isMintAuth : BOOLEAN,
      tokenDecimals : { 0, 2 } ]

SendInputs ==
    [ publicKey : { Null, "WalletPk" },
      mintAddress : { "", "MintA", "not-base58" },
      recipientAddress : { "", "RecipB", "not-base58" },
      amount : Amounts ]

\* The identifiers mintTokens / transferTokens resolve with
Identifiers == { "sigA", "sigB" }

\* What they, getMint and the dynamic imports reject with; the last one is
\* not an Error object
NotAnError == "<not an Error>"
Rejections == { "Wallet not connected", "Transaction rejected by user.", NotAnError }

\* Date.now(): the reading of the clock, which no handler reads back
Timestamps == { 1700000000 }

\* The toasts of the page, by id: toast.loading / error / success with an id
\* option show or replace the toast of that id
Show(ts, id, kind, msg) ==
    [i \in DOMAIN ts \cup { id } |->
        IF i = id THEN [kind |-> kind, msg |-> msg, visible |-> TRUE] ELSE ts[i]]

\* toast.dismiss(id)
Hide(ts, id) ==
    [i \in DOMAIN ts |-> IF i = id THEN [ts[i] EXCEPT !.visible = FALSE] ELSE ts[i]]

\* useTransactionStore().addTransaction: append(TransactionHistoryEntry)
addTransaction(store, entry) == Append(store, entry)

\* token-minter.tsx lines 221-231, token-sender.tsx lines 108-118
HistoryEntry(kind, sig, args, now) ==
    [ id |-> sig, type |-> kind, tokenName |-> Null, tokenSymbol |-> Null,
      amount |-> args.amountNum, mintAddress |-> args.mintAddress,
      recipient |-> args.recipient, timestamp |-> now, status |-> "success" ]

\* error instanceof Error ? error.message : 'Failed to ... tokens'
Shown(c, error) ==
    IF error # NotAnError THEN error
    ELSE IF c = "mint" THEN "Failed to mint tokens" ELSE "Failed to send tokens"

\* A validation toast and return: nothing else changes
Refuse(c, id, msg) ==
    /\ ui' = [ui EXCEPT !.toasts = Show(@, id, "error", msg),
                        ![c].runs = @ + 1]
    /\ UNCHANGED << history, settled >>

\* catch and finally: token-minter.tsx lines 243-256, token-sender.tsx lines
\* 127-135, entered with the form and the toasts as the try block left them
Catch(c, form, shownSoFar, error) ==
    /\ ui' = [ui EXCEPT
                ![c] = [form EXCEPT !.isLoading = FALSE, !.args = Null, !.pc = "idle"],
                !.toasts = Show(shownSoFar, c \o "-error", "error", Shown(c, error))]
    /\ UNCHANGED << history, settled >>

\* The submit button is disabled while isLoading (token-minter.tsx line 368,
\* token-sender.tsx line 191)
CanSubmit(c) == ui[c].pc = "idle" /\ ~ui[c].isLoading /\ ui[c].runs < MaxRuns

\* mintToken up to its first await: lines 137-192
MintSubmit(in) ==
    /\ CanSubmit("mint")
    /\ IF in.publicKey = Null
         THEN Refuse("mint", "wallet-connect-error", "Please connect your wallet")
       ELSE IF in.mintAddress = ""
         THEN Refuse("mint", "mint-address-error", "Please enter a mint address")
       ELSE IF ~in.isMintAuth
         THEN Refuse("mint", "mint-auth-error",
                     "Your wallet is not the mint authority for this token")
       ELSE IF BadAmount(in.amount)
         THEN Refuse("mint", "amount-error",
                     "Please enter a valid amount greater than 0")
       ELSE LET begun == [ui["mint"] EXCEPT
                            !.isLoading = TRUE,
                            !.signature = Null,
                            !.amount = in.amount,
                            !.runs = @ + 1,
                            !.args = [ amountNum |-> ParseFloat(in.amount).value,
                                       mintAddress |-> in.mintAddress,
                                       recipient |-> in.publicKey,
                                       decimals |-> in.tokenDecimals ]]
                preparing == Show(ui.toasts, "mint-loading", "loading",
                                  "Preparing to mint tokens...")
            IN  IF ~IsAddress(in.mintAddress)
                THEN Catch("mint", begun, preparing, "Invalid public key input")
                ELSE /\ ui' = [ui EXCEPT
                                 !["mint"] = [begun EXCEPT !.pc = "import"],
                                 !.toasts = Show(preparing, "mint-loading", "loading",
                                                 "Creating transaction...")]
                     /\ UNCHANGED << history, settled >>
    /\ UNCHANGED << engine, rawMessage, shown, beside >>

\* lines 192-209: the import has settled; mintTokens is called
MintImported ==
    /\ ui["mint"].pc = "import"
    /\ \/ /\ ui' = [ui EXCEPT
                      !.toasts = Show(@, "mint-loading", "loading",
                          "Please approve the transaction in your wallet..."),
                      !["mint"].args = [ amountNum |-> @.amountNum,
                                         mintAddress |-> @.mintAddress,
                                         recipient |-> @.recipient,
                                         decimals |-> @.decimals,
                                         mintAmount |-> @.amountNum * 10 ^ @.decimals ],
                      !["mint"].pc = "op"]
          /\ UNCHANGED << history, settled >>
       \/ \E error \in Rejections : Catch("mint", ui["mint"], ui.toasts, error)
    /\ UNCHANGED << engine, rawMessage, shown, beside >>

\* Mutant: the history is not written
Resolved_Unrecorded(c, sig) ==
    /\ settled' = Append(settled, [by |-> c, id |-> sig])
    /\ history' = history
    /\ ui' = [ui EXCEPT
                ![c].signature = sig,
                !.toasts = Show(Hide(Show(@, c \o "-loading", "loading",
                                          "Confirming transaction..."),
                                     c \o "-loading"),
                                c \o "-success", "success",
                                IF c = "mint" THEN "Tokens minted successfully!"
                                              ELSE "Tokens sent successfully!"),
                ![c].amount = "",
                ![c].args = Null,
                ![c].isLoading = FALSE,
                ![c].pc = "idle"]

\* mintTokens / transferTokens resolved with sig: token-minter.tsx lines
\* 211-241 and 254-256, token-sender.tsx lines 101-125 and 133-135
Resolved(c, sig) ==
    /\ settled' = Append(settled, [by |-> c, id |-> sig])
    /\ \E now \in Timestamps :
         history' = addTransaction(history, HistoryEntry(c, sig, ui[c].args, now))
    /\ ui' = [ui EXCEPT
                ![c].signature = sig,
                !.toasts = Show(Hide(Show(@, c \o "-loading", "loading",
                                          "Confirming transaction..."),
                                     c \o "-loading"),
                                c \o "-success", "success",
                                IF c = "mint" THEN "Tokens minted successfully!"
                                              ELSE "Tokens sent successfully!"),
                ![c].amount = "",
                ![c].args = Null,
                ![c].isLoading = FALSE,
                ![c].pc = "idle"]

\* await mintTokens(...) has settled
MintSettled ==
    /\ ui["mint"].pc = "op"
    /\ \/ \E sig \in Identifiers : Resolved("mint", sig)
       \/ \E error \in Rejections : Catch("mint", ui["mint"], ui.toasts, error)
    /\ UNCHANGED << engine, rawMessage, shown, beside >>

\* sendToken up to its first await: lines 38-77
SendSubmit(in) ==
    /\ CanSubmit("send")
    /\ IF in.publicKey = Null
         THEN Refuse("send", "wallet-connect-error", "Please connect your wallet")
       ELSE IF in.mintAddress = ""
         THEN Refuse("send", "mint-address-error", "Please enter a mint address")
       ELSE IF in.recipientAddress = ""
         THEN Refuse("send", "recipient-address-error",
                     "Please enter a recipient address")
       ELSE IF BadAmount(in.amount)
         THEN Refuse("send", "amount-error",
                     "Please enter a valid amount greater than 0")
       ELSE IF ~IsAddress(in.recipientAddress)
         THEN Refuse("send", "invalid-address-error", "Invalid recipient address")
       ELSE /\ ui' = [ui EXCEPT !["send"] =
                        [@ EXCEPT
                           !.isLoading = TRUE,
                           !.signature = Null,
                           !.amount = in.amount,
                           !.runs = @ + 1,
                           !.args = [ amountNum |-> ParseFloat(in.amount).value,
                                      mintAddress |-> in.mintAddress,
                                      recipient |-> in.recipientAddress ],
                           !.pc = "import"],
                        !.toasts = Show(@, "send-loading", "loading",
                                        "Preparing to send tokens...")]
            /\ UNCHANGED << history, settled >>
    /\ UNCHANGED << engine, rawMessage, shown, beside >>

\* lines 77-83: token-operations is imported; @solana/spl-token is next
SendImported ==
    /\ ui["send"].pc = "import"
    /\ \/ /\ ui' = [ui EXCEPT
                      !.toasts = Show(@, "send-loading", "loading",
                                      "Creating transaction..."),
                      !["send"].pc = "import2"]
          /\ UNCHANGED << history, settled >>
       \/ \E error \in Rejections : Catch("send", ui["send"], ui.toasts, error)
    /\ UNCHANGED << engine, rawMessage, shown, beside >>

\* lines 83-84: new PublicKey(mintAddress) and the call of getMint
SendLoaded ==
    /\ ui["send"].pc = "import2"
    /\ \/ IF IsAddress(ui["send"].args.mintAddress)
          THEN /\ ui' = [ui EXCEPT !["send"].pc = "getMint"]
               /\ UNCHANGED << history, settled >>
          ELSE Catch("send", ui["send"], ui.toasts, "Invalid public key input")
       \/ \E error \in Rejections : Catch("send", ui["send"], ui.toasts, error)
    /\ UNCHANGED << engine, rawMessage, shown, beside >>

\* lines 84-99: getMint has settled; transferTokens is called
SendGotMint ==
    /\ ui["send"].pc = "getMint"
    /\ \/ /\ ui' = [ui EXCEPT
                      !.toasts = Show(@, "send-loading", "loading",
                          "Please approve the transaction in your wallet..."),
                      !["send"].pc = "op"]
          /\ UNCHANGED << history, settled >>
       \/ \E error \in Rejections : Catch("send", ui["send"], ui.toasts, error)
    /\ UNCHANGED << engine, rawMessage, shown, beside >>

\* await transferTokens(...) has settled
SendSettled ==
    /\ ui["send"].pc = "op"
    /\ \/ \E sig \in Identifiers : Resolved("send", sig)
       \/ \E error \in Rejections : Catch("send", ui["send"], ui.toasts, error)
    /\ UNCHANGED << engine, rawMessage, shown, beside >>

InitForms ==
    /\ EngineIdle
    /\ Aside

NextForms ==
    \/ \E in \in MintInputs : MintSubmit(in)
    \/ MintImported
    \/ MintSettled
    \/ \E in \in SendInputs : SendSubmit(in)
    \/ SendImported
    \/ SendLoaded
    \/ SendGotMint
    \/ SendSettled

SpecForms == InitForms /\ [][NextForms]_vars

-----------------------------------------------------------------------------
(* sendTransactionWithRetry as a function of the answers it is given: the
   stricter implementation (transaction-utility.ts lines 28-237) and the
   looser duplicate (unnamed/part_001 lines 27-165).  A call is resumed from
   the await it is parked on with the answer to it, and runs to its next
   await.  The watcher of an attempt whose deadline has fired runs on
   unobserved and is left out. *)

Implementations == { "strict", "loose" }

\* transaction-utility.ts lines 54-57 and 85-87; part_001 has neither check
ChecksIdentity(impl) == impl = "strict"

\* transaction-utility.ts lines 128-144 and 163-189: the lookup after a
\* thrown confirmation and the verification of an expired one; part_001
\* rejects at once (lines 118-121) and has no inner catch
LooksUp(impl) == impl = "strict"

\* transaction-utility.ts line 217; part_001 line 145
Retries(impl, att, max, msg) ==
    IF impl = "strict" THEN ShouldRetry(att, max, msg)
    ELSE att < max /\ IsBlockhashError(msg)

\* react-hot-toast gives every toast an id of its own: here the call that
\* made it and its rank among the toasts of that call
Made(ts, who) == { id \in DOMAIN ts : id[1] = who }

NoToast == << >>

\* toast.loading / toast.success / toast.error
Notify(ts, who, kind, msg) ==
    (<< who, Cardinality(Made(ts, who)) + 1 >>
        :> [kind |-> kind, msg |-> msg, active |-> TRUE]) @@ ts

\* the id toast.loading has just returned
Latest(ts, who) == << who, Cardinality(Made(ts, who)) >>

\* toast.dismiss(id)
Withdraw(ts, id) ==
    [i \in DOMAIN ts |-> IF i = id THEN [ts[i] EXCEPT !.active = FALSE] ELSE ts[i]]

\* The locals of a call (lines 46-51) and what it has done so far: the
\* windows fetched, the sends with the window bound, and the backoff delays
Invocation(who, max, signers) ==
    [ who |-> who, pc |-> "start", maxRetries |-> max, hasSigners |-> signers,
      attempt |-> 0, success |-> FALSE, lastError |-> Null, signature |-> "",
      window |-> NoWindow, toastId |-> NoToast, confirmToast |-> NoToast,
      confirmError |-> Null, fetched |-> << >>, sends |-> << >>,
      identifiers |-> << >>, delays |-> << >>, result |-> Null,
      thrown |-> Null ]

\* new Transaction() with its instructions added
FreshTransaction ==
    [ recentBlockhash |-> 0, lastValidBlockHeight |-> 0, feePayer |-> Null,
      signedOver |-> 0, instructions |-> << "ix1", "ix2" >> ]

\* A call, the transaction object it was given and the toasts it writes to
World(run, t, ts) == [run |-> run, tx |-> t, toasts |-> ts]

\* An answer of the environment: the wallet's publicKey as read on
\* resumption, a window, a fault text or a signature status
Answer(kind, pk, w, msg, status) ==
    [kind |-> kind, pk |-> pk, window |-> w, msg |-> msg, status |-> status]

\* Faults thrown at a call in flight, and the program-level error
Thrown == { "blockhash not found", "insufficient funds for rent" }

\* The answers a call parked at pc may be resumed with; pks are the values
\* wallet.publicKey may have then
Answers(at, pks) ==
    IF at = "start"
        THEN { Answer("called", pk, NoWindow, "", "") : pk \in pks }
    ELSE IF at = "fetch"
        THEN { Answer("window", pk, w, "", "") : pk \in pks, w \in Windows }
             \cup { Answer("throw", TRUE, NoWindow, "blockhash not found", "") }
    ELSE IF at = "send"
        THEN { Answer("signature", TRUE, NoWindow, "", "") }
             \cup { Answer("throw", TRUE, NoWindow, msg, "") : msg \in Thrown }
    ELSE IF at = "confirm"
        THEN { Answer(kind, TRUE, NoWindow, "", "") : kind \in { "ok", "err", "timer" } }
             \cup { Answer("throw", TRUE, NoWindow, "block height exceeded", "") }
    ELSE IF at = "lookup"
        THEN { Answer("status", TRUE, NoWindow, "", st) : st \in { "ok", "null" } }
             \cup { Answer("timer", TRUE, NoWindow, "", "") }
    ELSE IF at = "verify"
        THEN { Answer("status", TRUE, NoWindow, "", st) : st \in { "ok", "err" } }
             \cup { Answer("throw", TRUE, NoWindow, "Request Timeout", "") }
    ELSE IF at \in { "verifyDelay", "backoff" }
        THEN { Answer("elapsed", TRUE, NoWindow, "", "") }
    ELSE { }

\* The loop head (line 59) with the attempt count and the call of
\* getLatestBlockhash (lines 61-65), or the code after the loop (235-236)
Enter(w) ==
    IF w.run.attempt < w.run.maxRetries /\ ~w.run.success
    THEN [w EXCEPT !.run.attempt = @ + 1, !.run.pc = "fetch"]
    ELSE [w EXCEPT !.toasts = Withdraw(@, w.run.toastId),
                   !.run.thrown = IF w.run.lastError # Null THEN w.run.lastError
                                  ELSE UnknownReasonText,
                   !.run.pc = "done"]

\* The catch block of lines 194-231 (part_001 lines 134-159) for the error msg
Fail(impl, w, msg) ==
    LET seen == [w EXCEPT !.run.lastError = Remember(@, msg),
                          !.run.window = NoWindow,
                          !.run.confirmToast = NoToast,
                          !.run.confirmError = Null]
    IN  IF ChecksIdentity(impl) /\ IsWalletError(msg)
        THEN [seen EXCEPT
                !.toasts = Notify(Withdraw(@, w.run.toastId), w.run.who, "error",
                                  WalletErrorText),
                !.run.thrown = msg,
                !.run.pc = "done"]
        ELSE IF Retries(impl, w.run.attempt, w.run.maxRetries, msg)
        THEN [seen EXCEPT
                !.toasts = Notify(Withdraw(@, w.run.toastId), w.run.who, "loading",
                                  RetryingText(w.run.attempt, w.run.maxRetries)),
                !.run.delays = Append(@, BackoffDelay(w.run.attempt)),
                !.run.pc = "backoff"]
        ELSE [seen EXCEPT
                !.toasts = Notify(Withdraw(@, w.run.toastId), w.run.who, "error",
                                  getErrorMessage(msg)),
                !.run.thrown = msg,
                !.run.pc = "done"]

\* lines 157-161 and 180-183 (part_001 lines 129-133)
Succeed(w) ==
    [w EXCEPT !.toasts = Notify(Withdraw(@, w.run.confirmToast), w.run.who,
                                "success", SuccessText),
              !.run.success = TRUE,
              !.run.result = w.run.signature,
              !.run.window = NoWindow,
              !.run.confirmToast = NoToast,
              !.run.confirmError = Null,
              !.run.pc = "done"]

\* The confirmation promise was rejected with msg: the inner catch of lines
\* 162-193, which part_001 does not have
Rejected(impl, w, msg) ==
    IF LooksUp(impl) /\ IsExpiryOnConfirm(msg)
    THEN [w EXCEPT !.toasts = Notify(@, w.run.who, "loading", VerifyingText),
                   !.run.confirmError = msg,
                   !.run.pc = "verifyDelay"]
    ELSE Fail(impl, w, msg)

\* The transaction as wallet.sendTransaction was given it (line 90)
Passed(w) == w.run.sends[Len(w.run.sends)]

\* The call parked at w.run.pc is resumed with the answer r
Resume(impl, w, r) ==
    LET at == w.run.pc
    IN  IF at = "start"
        THEN LET ts == Notify(w.toasts, w.run.who, "loading", PreparingText)
                 begun == [w EXCEPT !.toasts = ts,
                                    !.run.toastId = Latest(ts, w.run.who)]
             IN  IF ChecksIdentity(impl) /\ WalletAbsentAtCall(r.pk)
                 THEN [begun EXCEPT !.toasts = Withdraw(@, begun.run.toastId),
                                    !.run.thrown = NotConnectedText,
                                    !.run.pc = "done"]
                 ELSE Enter(begun)
        ELSE IF at = "fetch"
        THEN IF r.kind = "throw" THEN Fail(impl, w, r.msg)
             ELSE LET t == SignWith(SetFeePayer(BindWindow(w.tx, r.window), r.pk),
                                    w.run.hasSigners)
                      asked == [w EXCEPT
                                  !.tx = t,
                                  !.toasts = Notify(Withdraw(@, w.run.toastId),
                                                    w.run.who, "loading",
                                                    ApproveText(w.run.attempt,
                                                                w.run.maxRetries)),
                                  !.run.fetched = Append(@, r.window)]
                  IN  IF ChecksIdentity(impl) /\ WalletAbsentBeforeSend(r.pk)
                      THEN Fail(impl, asked, DisconnectedText)
                      ELSE [asked EXCEPT !.run.window = r.window,
                                         !.run.sends = Append(@, t),
                                         !.run.pc = "send"]
        ELSE IF at = "send"
        THEN IF r.kind = "throw" THEN Fail(impl, w, r.msg)
             ELSE LET ts == Notify(Withdraw(w.toasts, w.run.toastId), w.run.who,
                                   "loading", ConfirmingText)
                  IN  [w EXCEPT !.toasts = ts,
                                !.run.signature = SignatureOf(Passed(w)),
                                !.run.identifiers = Append(@, SignatureOf(Passed(w))),
                                !.run.confirmToast = Latest(ts, w.run.who),
                                !.run.pc = "confirm"]
        ELSE IF at = "confirm"
        THEN IF r.kind = "ok" THEN Succeed(w)
             ELSE IF r.kind = "err" THEN Rejected(impl, w, ConfirmedButFailedText)
             ELSE IF r.kind = "timer" THEN Rejected(impl, w, ConfirmTimeoutText)
             ELSE IF LooksUp(impl)
                  THEN [w EXCEPT !.run.confirmError = r.msg, !.run.pc = "lookup"]
                  ELSE Rejected(impl, w, r.msg)
        ELSE IF at = "lookup"
        THEN IF r.kind = "timer" THEN Rejected(impl, w, ConfirmTimeoutText)
             ELSE IF r.kind = "status" /\ StatusConfirmed(r.status) THEN Succeed(w)
             ELSE Rejected(impl, w, w.run.confirmError)
        ELSE IF at = "verifyDelay"
        THEN [w EXCEPT !.run.pc = "verify"]
        ELSE IF at = "verify"
        THEN IF r.kind = "status" /\ StatusConfirmed(r.status) THEN Succeed(w)
             ELSE Fail(impl, w, w.run.confirmError)
        ELSE IF at = "backoff"
        THEN Enter(w)
        ELSE w

\* What a call is compared by: its attempt count, the windows it fetched and
\* bound, the identifiers it got, its delays and its outcome
Outcome(w) ==
    [ attempt |-> w.run.attempt, fetched |-> w.run.fetched,
      sends |-> w.run.sends, identifiers |-> w.run.identifiers,
      delays |-> w.run.delays, result |-> w.run.result,
      thrown |-> w.run.thrown, tx |-> w.tx ]

-----------------------------------------------------------------------------
(* The two implementations, called with the same options while the wallet
   stays connected, and given the same answers *)

\* options.maxRetries is drawn from 0 .. TwinRetries
TwinRetries == 2

InitTwin ==
    /\ EngineIdle
    /\ ClassifierIdle
    /\ FormsIdle
    /\ PairIdle
    /\ LibraryIdle
    /\ \E max \in 0 .. TwinRetries, signers \in BOOLEAN :
         twin = [ strict |-> World(Invocation("strict", max, signers),
                                   FreshTransaction, << >>),
                  loose |-> World(Invocation("loose", max, signers),
                                  FreshTransaction, << >>),
                  heard |-> << >> ]

\* The implementation impl is resumed.  The environment answers the call of
\* an operation in an attempt the same way to both implementations:
\* twin.heard keeps the answers given so far
TwinResumes(impl) ==
    /\ twin[impl].run.pc # "done"
    /\ LET w   == twin[impl]
           key == << w.run.pc, w.run.attempt >>
       IN  \E r \in (IF key \in DOMAIN twin.heard THEN { twin.heard[key] }
                     ELSE Answers(w.run.pc, { TRUE })) :
              twin' = [twin EXCEPT ![impl] = Resume(impl, w, r),
                                   !.heard = (key :> r) @@ @]
    /\ UNCHANGED << engine, rawMessage, shown, forms, pair, library >>

StrictResumes == TwinResumes("strict")

LooseResumes == TwinResumes("loose")

NextTwin == StrictResumes \/ LooseResumes

SpecTwin == InitTwin /\ [][NextTwin]_vars

-----------------------------------------------------------------------------
(* Two calls of sendTransactionWithRetry under way at once, each with its own
   transaction object; they share the toasts *)

\* options.maxRetries of either call is drawn from 1 .. PairRetries
PairRetries == 2

Calls == { 1, 2 }

\* The transaction object call i was given
TransactionOf(i) == i

\* Mutant: let attempt is a variable of the module, shared by the calls
Store_ModuleLevel(all, i, run) ==
    [j \in DOMAIN all |->
        IF j = i THEN run ELSE [all[j] EXCEPT !.attempt = run.attempt]]

\* let signature, attempt, success, lastError (lines 46-49) and the locals of
\* the loop body belong to the call
Store(all, i, run) == [all EXCEPT ![i] = run]

InitPair ==
    /\ EngineIdle
    /\ ClassifierIdle
    /\ FormsIdle
    /\ TwinIdle
    /\ LibraryIdle
    /\ \E max \in [Calls -> 1 .. PairRetries] :
         pair = [ subs |-> [i \in Calls |-> Invocation(i, max[i], FALSE)],
                  objs |-> [i \in Calls |-> FreshTransaction],
                  sink |-> << >>,
                  heard |-> [i \in Calls |-> << >>] ]

\* Call i is resumed with an answer of the environment
PairResumes(i) ==
    /\ pair.subs[i].pc # "done"
    /\ \E r \in Answers(pair.subs[i].pc, { TRUE }) :
         LET w == World(pair.subs[i], pair.objs[TransactionOf(i)], pair.sink)
             v == Resume("strict", w, r)
         IN  pair' = [ subs |-> Store(pair.subs, i, v.run),
                       objs |-> [pair.objs EXCEPT ![TransactionOf(i)] = v.tx],
                       sink |-> v.toasts,
                       heard |-> [pair.heard EXCEPT ![i] = Append(@, r)] ]
    /\ UNCHANGED << engine, rawMessage, shown, forms, twin, library >>

FirstResumes == PairResumes(1)

SecondResumes == PairResumes(2)

NextPair == FirstResumes \/ SecondResumes

SpecPair == InitPair /\ [][NextPair]_vars

\* The call with the given options, run alone on a new transaction and given
\* the answers in turn
Alone(who, max, signers, answers) ==
    LET after[k \in 0 .. Len(answers)] ==
            IF k = 0
            THEN World(Invocation(who, max, signers), FreshTransaction, << >>)
            ELSE Resume("strict", after[k - 1], answers[k])
    IN  after[Len(answers)]

-----------------------------------------------------------------------------
(* sendTokenTransaction, transaction-utility.ts lines 355-470.  The call is *)
(* one record; one action is one run of its code between two awaits.       *)

\* options.maxRetries is drawn from 0..TokenRetries
TokenRetries == 3

\* Fault texts the network and the wallet throw at sendTokenTransaction; the
\* empty text is an error without a message
TokenFaults ==
    { "blockhash not found", "block height exceeded", "User rejected the request",
      "insufficient funds for rent", "Request Timeout", "socket timeout", "" }

\* Everything but the call of sendTokenTransaction
exceptToken == << engine, rawMessage, shown, forms, pair, twin, minting, tracker >>

\* lines 368-377: the options and the locals of a call that has not run yet
TokenInvocation(max, signers, pk) ==
    [ pc |-> "called", maxRetries |-> max, hasSigners |-> signers,
      walletPk |-> pk, attempt |-> 0, lastError |-> Null, window |-> NoWindow,
      tx |-> FreshTransaction, toasts |-> << >>, loadingToast |-> 0,
      confirmToast |-> 0, signature |-> Null, fetches |-> 0,
      sends |-> 0, sent |-> Null,
      confirming |-> [signature |-> Null, window |-> NoWindow],
      caught |-> << >>,
      delays |-> << >>, raw |-> Null, result |-> Null, landed |-> Null,
      thrown |-> Null ]

\* lines 460-469: the outer catch block
OuterCatch(t, msg) ==
    [t EXCEPT !.pc = "thrown",
              !.toasts = Dismiss(@, t.loadingToast),
              !.raw = msg,
              !.thrown = getErrorForTransaction(
                             IF msg = "" THEN "Unknown error occurred" ELSE msg)]

\* lines 394-398 and 459: the loop test, and the next wallet.sendTransaction
TokenLoop(t) ==
    IF t.attempt < t.maxRetries
    THEN [t EXCEPT !.pc = "send", !.attempt = @ + 1, !.sends = @ + 1,
                   !.sent = t.tx]
    ELSE OuterCatch(t, IF t.lastError # Null THEN t.lastError
                       ELSE "Transaction failed after maximum retries")

\* lines 435-455: the catch block of an attempt
InnerCatch(t, msg) ==
    LET u == [t EXCEPT !.lastError = msg, !.caught = Append(@, msg)]
    IN  IF u.attempt >= u.maxRetries THEN OuterCatch(u, msg)
        ELSE IF Includes(msg, "blockhash not found")
            THEN [u EXCEPT !.pc = "refetch", !.fetches = @ + 1]
        ELSE [u EXCEPT !.pc = "delay",
                       !.delays = Append(@, 1000 * u.attempt)]

\* lines 422-434: the catch block of the confirmation; how is what happened
\* to the transaction as far as the call knows
ConfirmCatch(t, msg, how) ==
    LET u == [t EXCEPT !.toasts = Dismiss(@, t.confirmToast)]
    IN  IF Includes(msg, "timeout")
        THEN [u EXCEPT !.toasts = Toast(@, "loading", "Transaction may have succeeded, but confirmation timed out. Please check explorer."),
                       !.pc = "returned", !.result = t.signature,
                       !.landed = how]
        ELSE InnerCatch(u, msg)

\* lines 368-380: the call runs up to the first getLatestBlockhash
TokenCall ==
    /\ token.pc = "called"
    /\ token' = [token EXCEPT !.pc = "fetch", !.fetches = @ + 1]
    /\ UNCHANGED exceptToken

\* lines 380-398: the window is bound, the fee payer set, the co-signers sign,
\* the loading toast is shown and the loop is entered
TokenFetchReturns(w) ==
    /\ token.pc = "fetch"
    /\ LET bound == SignWith(SetFeePayer(BindWindow(token.tx, w), token.walletPk),
                             token.hasSigners)
           t == [token EXCEPT !.window = w, !.tx = bound,
                              !.toasts = Toast(@, "loading", "Processing transaction..."),
                              !.loadingToast = Len(token.toasts) + 1]
       IN  token' = TokenLoop(t)
    /\ UNCHANGED exceptToken

\* line 380 throws: the await is outside every try block
TokenFetchThrows(msg) ==
    /\ token.pc = "fetch"
    /\ token' = [token EXCEPT !.pc = "thrown", !.raw = msg, !.thrown = msg]
    /\ UNCHANGED exceptToken

\* lines 398-418: the identifier arrives; confirmTransaction is called with
\* the function's blockhash and lastValidBlockHeight and races the timer
TokenSendReturns ==
    /\ token.pc = "send"
    /\ LET sig == SignatureOf(token.sent)
           ts  == Toast(Dismiss(token.toasts, token.loadingToast), "loading",
                        "Confirming transaction...")
       IN  token' = [token EXCEPT
                        !.pc = "confirm", !.signature = sig, !.toasts = ts,
                        !.confirmToast = Len(ts),
                        !.confirming = [signature |-> sig, window |-> token.window]]
    /\ UNCHANGED exceptToken

\* line 398 throws
TokenSendThrows(msg) ==
    /\ token.pc = "send"
    /\ token' = InnerCatch(token, msg)
    /\ UNCHANGED exceptToken

\* lines 409-421: confirmTransaction resolves first, with value.err = err
TokenConfirmReturns(err) ==
    /\ token.pc = "confirm"
    /\ token' = [token EXCEPT
                    !.toasts = Dismiss(@, token.confirmToast),
                    !.pc = "returned", !.result = token.signature,
                    !.landed = IF err = Null THEN "confirmed" ELSE "program error"]
    /\ UNCHANGED exceptToken

\* line 410 throws first
TokenConfirmThrows(msg) ==
    /\ token.pc = "confirm"
    /\ token' = ConfirmCatch(token, msg, "fault")
    /\ UNCHANGED exceptToken

\* lines 415-417: the maxTimeout timer rejects first
TokenTimerFires ==
    /\ token.pc = "confirm"
    /\ token' = ConfirmCatch(token, ConfirmTimeoutText, "deadline")
    /\ UNCHANGED exceptToken

\* lines 445-450: the new window is bound to the transaction; continue
TokenRefetchReturns(w) ==
    /\ token.pc = "refetch"
    /\ token' = TokenLoop([token EXCEPT !.tx = BindWindow(@, w)])
    /\ UNCHANGED exceptToken

\* line 446 throws inside the catch block of the attempt
TokenRefetchThrows(msg) ==
    /\ token.pc = "refetch"
    /\ token' = OuterCatch(token, msg)
    /\ UNCHANGED exceptToken

\* line 454: the delay is over
TokenDelayDone ==
    /\ token.pc = "delay"
    /\ token' = TokenLoop(token)
    /\ UNCHANGED exceptToken

InitToken ==
    /\ EngineIdle
    /\ ClassifierIdle
    /\ FormsIdle
    /\ PairIdle
    /\ TwinIdle
    /\ minting = Null
    /\ tracker = Null
    /\ token \in { TokenInvocation(max, signers, pk) :
                     max \in 0 .. TokenRetries, signers \in BOOLEAN,
                     pk \in BOOLEAN }

NextToken ==
    \/ TokenCall
    \/ \E w \in Windows : TokenFetchReturns(w)
    \/ \E msg \in TokenFaults : TokenFetchThrows(msg)
    \/ TokenSendReturns
    \/ \E msg \in TokenFaults : TokenSendThrows(msg)
    \/ \E err \in { Null, ProgramErrJson } : TokenConfirmReturns(err)
    \/ \E msg \in TokenFaults : TokenConfirmThrows(msg)
    \/ TokenTimerFires
    \/ \E w \in Windows : TokenRefetchReturns(w)
    \/ \E msg \in TokenFaults : TokenRefetchThrows(msg)
    \/ TokenDelayDone

SpecToken == InitToken /\ [][NextToken]_vars

-----------------------------------------------------------------------------
(* mintTokens, token-operations.ts lines 87-219.  The call is one record;   *)
(* the call of sendTransactionWithRetry it makes is run step by step.       *)

\* line 175: the maxRetries mintTokens passes to sendTransactionWithRetry
MintRetries == 5

\* lines 120-124, BigInt(amountStr) for decimal texts: blanks around it are dropped, the empty
\* text is 0n, an optional sign and digits are the integer; anything else
\* (a fraction, an exponent, letters) throws a SyntaxError
StringToBigInt(text) ==
    LET IsBlank(i) == SubSeq(text, i, i) = " "
        lead[i \in 1 .. Len(text) + 1] ==
            IF i <= Len(text) /\ IsBlank(i) THEN lead[i + 1] ELSE i
        trail[i \in 0 .. Len(text)] ==
            IF i >= 1 /\ IsBlank(i) THEN trail[i - 1] ELSE i
        first == lead[1]
        last  == IF first > Len(text) THEN first - 1 ELSE trail[Len(text)]
        signed == first <= last /\ SubSeq(text, first, first) \in { "-", "+" }
        neg   == signed /\ SubSeq(text, first, first) = "-"
        from  == IF signed THEN first + 1 ELSE first
        digits == \A i \in from .. last : SubSeq(text, i, i) \in DOMAIN DigitValue
        val[i \in (from - 1) .. last] ==
            IF i < from THEN 0
            ELSE val[i - 1] * 10 + DigitValue[SubSeq(text, i, i)]
    IN  IF first > last THEN [ok |-> ~signed, value |-> 0]
        ELSE IF from > last \/ ~digits THEN [ok |-> FALSE, value |-> 0]
        ELSE [ok |-> TRUE, value |-> IF neg THEN 0 - val[last] ELSE val[last]]

\* rawAmount: a string, or a number given by what its toString() yields
RawAmounts ==
    [ isNumber : { FALSE }, text : { "", "-1", "1.5", "12abc" } ]
    \cup [ isNumber : { TRUE }, text : { "1000", "2.5", "1e+21" } ]

\* lines 189-217: the error the catch block rethrows for the message msg
MintFailure(msg) ==
    IF Includes(msg, "not the mint authority") \/ Includes(msg, "Invalid mint authority")
        THEN "Your wallet is not the mint authority for this token"
    ELSE IF Includes(msg, "insufficient funds")
        THEN "Insufficient SOL balance to pay for transaction fees"
    ELSE IF Includes(msg, "0x1") \/ Includes(msg, "custom program error: 0x1")
        THEN "Transaction simulation failed. The amount may be too large or there may be an issue with the token"
    ELSE IF Includes(msg, "blockhash") \/ Includes(msg, "Block height exceeded")
        THEN "Transaction timed out. The Solana network may be congested, please try again"
    ELSE IF Includes(msg, "Transaction was not confirmed") \/ Includes(msg, "timeout")
        THEN "Transaction was not confirmed in time. Check Solana Explorer for transaction status"
    ELSE IF Includes(msg, "invalid mint")
        THEN "Invalid mint address. Please check the address and try again"
    ELSE IF Includes(msg, "Account does not exist")
        THEN "Token account does not exist. This may be an invalid mint address"
    ELSE msg

\* Fault texts getMint and getAccountInfo throw
MintFaults == { "Account does not exist", "Request Timeout", "failed to get info: timeout" }

\* What getMint resolves with as mintInfo.mintAuthority
Authorities == { Null, "WalletPk", "OtherPk" }

\* Everything but the call of mintTokens
exceptMinting == << engine, rawMessage, shown, forms, pair, twin, token, tracker >>

\* The call of sendTransactionWithRetry of lines 169-181, not made yet
NotSent ==
    World(Invocation("strict", MintRetries, FALSE), FreshTransaction, << >>)

\* lines 87-92: the arguments of a call that has not run yet
MintCallOf(pk, address, rawAmount) ==
    [ pc |-> "called", publicKey |-> pk, mintAddress |-> address,
      rawAmount |-> rawAmount, authority |-> "unread", amount |-> 0,
      built |-> FALSE, entered |-> FALSE, run |-> NotSent,
      lookups |-> 0, result |-> Null, thrown |-> Null ]

\* lines 185-217: the catch block
MintCatch(m, msg) == [m EXCEPT !.pc = "thrown", !.thrown = MintFailure(msg)]

\* lines 95-104: the wallet check, new PublicKey(mintAddress) and getMint
MintCall ==
    /\ minting.pc = "called"
    /\ minting' =
         IF minting.publicKey = Null
         THEN [minting EXCEPT !.pc = "thrown", !.thrown = "Wallet not connected"]
         ELSE IF ~IsAddress(minting.mintAddress)
         THEN MintCatch(minting, "Invalid public key input")
         ELSE [minting EXCEPT !.pc = "getMint", !.lookups = @ + 1]
    /\ UNCHANGED exceptMinting

\* Mutant: the mint authority is not compared with the wallet's key
GetMintReturns_AnyAuthority(auth) ==
    /\ minting.pc = "getMint"
    /\ LET m == [minting EXCEPT !.authority = auth]
           n == StringToBigInt(minting.rawAmount.text)
       IN  minting' =
             IF auth = Null THEN MintCatch(m, "This token has no mint authority set and cannot be minted")
             ELSE IF ~n.ok THEN MintCatch(m, "Invalid amount format. Please check your input.")
             ELSE [m EXCEPT !.amount = n.value, !.pc = "address"]
    /\ UNCHANGED exceptMinting

\* lines 104-137: the authority check and the conversion of the amount
GetMintReturns(auth) ==
    /\ minting.pc = "getMint"
    /\ LET m == [minting EXCEPT !.authority = auth]
           n == StringToBigInt(minting.rawAmount.text)
       IN  minting' =
             IF auth = Null THEN MintCatch(m, "This token has no mint authority set and cannot be minted")
             ELSE IF minting.publicKey # auth THEN MintCatch(m, "Your wallet is not the mint authority for this token")
             ELSE IF ~n.ok THEN MintCatch(m, "Invalid amount format. Please check your input.")
             ELSE [m EXCEPT !.amount = n.value, !.pc = "address"]
    /\ UNCHANGED exceptMinting

\* line 104 throws
GetMintThrows(msg) ==
    /\ minting.pc = "getMint"
    /\ minting' = MintCatch(minting, msg)
    /\ UNCHANGED exceptMinting

\* lines 131-140: the token account's address is derived; getAccountInfo
GotAddress ==
    /\ minting.pc = "address"
    /\ minting' = [minting EXCEPT !.pc = "accountInfo", !.lookups = @ + 1]
    /\ UNCHANGED exceptMinting

\* lines 140-181: the transaction is built and sendTransactionWithRetry is
\* called, which runs up to its first getLatestBlockhash
GetAccountInfoReturns(exists) ==
    /\ minting.pc = "accountInfo"
    /\ LET t == [FreshTransaction EXCEPT
                    !.instructions = (IF exists THEN << >> ELSE << "createATA" >>)
                                     \o << "mintTo" >>]
           w == World(Invocation("strict", MintRetries, FALSE), t, << >>)
       IN  minting' = [minting EXCEPT
                          !.pc = "sending", !.built = TRUE, !.entered = TRUE,
                          !.run = Resume("strict", w,
                                         Answer("called", TRUE, NoWindow, "", ""))]
    /\ UNCHANGED exceptMinting

\* line 140 throws
GetAccountInfoThrows(msg) ==
    /\ minting.pc = "accountInfo"
    /\ minting' = MintCatch(minting, msg)
    /\ UNCHANGED exceptMinting

\* lines 169-183: sendTransactionWithRetry is resumed; when it ends, its
\* identifier is returned or its error is caught
MintSendResumes ==
    /\ minting.pc = "sending"
    /\ \E r \in Answers(minting.run.run.pc, { TRUE }) :
          LET w == Resume("strict", minting.run, r)
              m == [minting EXCEPT !.run = w]
          IN  minting' =
                IF w.run.pc # "done" THEN m
                ELSE IF w.run.result # Null
                THEN [m EXCEPT !.pc = "returned", !.result = w.run.result]
                ELSE MintCatch(m, w.run.thrown)
    /\ UNCHANGED exceptMinting

InitMint ==
    /\ EngineIdle
    /\ ClassifierIdle
    /\ FormsIdle
    /\ PairIdle
    /\ TwinIdle
    /\ token = Null
    /\ tracker = Null
    /\ minting \in { MintCallOf(pk, address, rawAmount) :
                       pk \in { Null, "WalletPk" },
                       address \in { "MintA", "not-base58" },
                       rawAmount \in RawAmounts }

NextMint ==
    \/ MintCall
    \/ \E auth \in Authorities : GetMintReturns(auth)
    \/ \E msg \in MintFaults : GetMintThrows(msg)
    \/ GotAddress
    \/ \E exists \in BOOLEAN : GetAccountInfoReturns(exists)
    \/ \E msg \in MintFaults : GetAccountInfoThrows(msg)
    \/ MintSendResumes

SpecMint == InitMint /\ [][NextMint]_vars

-----------------------------------------------------------------------------
(* The toast tracking of components/ui/index.ts: the module-level           *)
(* activeToasts list, createToast and the overridden toast.dismiss.         *)

\* line 410: slice(0, 5)
ToastLimit == 5

\* Date.now() takes the values 1 .. MaxClock
MaxClock == 2

\* options.id as the callers give it; "" is no id
GivenIds == { "", "a" }

\* Everything but the toast tracking
exceptTracker == << engine, rawMessage, shown, forms, pair, twin, token, minting >>

\* line 399: options.id || `toast-${Date.now()}`
ToastId(given, now) == IF given # "" THEN given ELSE "toast-" \o ToString(now)

\* activeToasts.filter(t => t.id !== id), lines 341 and 436
Without(list, id) == SelectSeq(list, LAMBDA t : t.id # id)

\* line 410: [newToast, ...activeToasts].slice(0, 5)
Created(list, entry) == SubSeq(<< entry >> \o list, 1, Min(Len(list) + 1, ToastLimit))

\* lines 398-419: createToast at the time now; react-hot-toast keeps one
\* toast per id
createToast(message, type, given, now) ==
    /\ now \in { tracker.now, tracker.now + 1 } /\ now <= MaxClock
    /\ LET id == ToastId(given, now)
       IN  tracker' = [tracker EXCEPT
                          !.activeToasts = Created(@, [id |-> id, message |-> message,
                                                      type |-> type, visible |-> TRUE]),
                          !.library = @ \cup { id },
                          !.now = now,
                          !.dismissed = ""]
    /\ UNCHANGED exceptTracker

\* lines 422-423
toastSuccess(given, now) == createToast("done", "success", given, now)

\* lines 425-426
toastError(given, now) == createToast("failed", "error", given, now)

\* lines 428-429
toastLoading(given, now) == createToast("wait", "loading", given, now)

\* lines 433-445 with an id
DismissOne(id) ==
    /\ tracker' = [tracker EXCEPT !.activeToasts = Without(@, id),
                                  !.library = @ \ { id },
                                  !.dismissed = id]
    /\ UNCHANGED exceptTracker

\* lines 433-445 without an id
DismissAll ==
    /\ tracker' = [tracker EXCEPT !.activeToasts = << >>, !.library = { },
                                  !.dismissed = ""]
    /\ UNCHANGED exceptTracker

\* lines 339-346: the close button of a toast on the page
onDismiss(id) ==
    /\ \E k \in DOMAIN tracker.activeToasts : tracker.activeToasts[k].id = id
    /\ tracker' = [tracker EXCEPT !.activeToasts = Without(Without(@, id), id),
                                  !.library = @ \ { id },
                                  !.dismissed = id]
    /\ UNCHANGED exceptTracker

\* The ids a toast may have
ToastIds == { ToastId(given, now) : given \in GivenIds, now \in 1 .. MaxClock }

InitTracker ==
    /\ EngineIdle
    /\ ClassifierIdle
    /\ FormsIdle
    /\ PairIdle
    /\ TwinIdle
    /\ token = Null
    /\ minting = Null
    /\ tracker = [ activeToasts |-> << >>, library |-> { }, now |-> 1,
                   dismissed |-> "" ]

NextTracker ==
    \/ \E given \in GivenIds, now \in 1 .. MaxClock : toastSuccess(given, now)
    \/ \E given \in GivenIds, now \in 1 .. MaxClock : toastError(given, now)
    \/ \E given \in GivenIds, now \in 1 .. MaxClock : toastLoading(given, now)
    \/ \E id \in ToastIds : DismissOne(id)
    \/ DismissAll
    \/ \E id \in ToastIds : onDismiss(id)

SpecTracker == InitTracker /\ [][NextTracker]_vars

-----------------------------------------------------------------------------
(* Properties *)

NoNetworkCall == net = [fetch |-> 0, send |-> 0, confirm |-> 0, status |-> 0]

\* C1: when wallet.publicKey is absent at the call, the call fails at once with
\* the wallet-not-connected error: no getLatestBlockhash, sendTransaction,
\* confirmTransaction or getSignatureStatus is issued and no attempt starts,
\* then or later.
C1_AbsentWalletFailsAtOnce ==
    /\ [][ (pc = "start" /\ ~walletPk)
             => (pc' = "thrown" /\ thrown' = NotConnectedText
                 /\ attempt' = 0 /\ NoNetworkCall') ]_vars
    /\ [](thrown = NotConnectedText
             => (pc = "thrown" /\ attempt = 0 /\ NoNetworkCall
                 /\ DOMAIN watch = {} /\ delays = << >>))

C1_Witness == pc = "thrown" /\ thrown = NotConnectedText /\ maxRetries > 0

\* C2: the number of getLatestBlockhash calls equals the number of attempts
\* started, and the window bound to the transaction passed to
\* wallet.sendTransaction is the one fetched in that same attempt.
C2_FreshWindowPerAttempt ==
    /\ net.fetch = attempt
    /\ sent.attempt # 0 =>
          /\ sent.attempt <= attempt
          /\ sent.tx.recentBlockhash = sent.fetched.blockhash
          /\ sent.tx.lastValidBlockHeight = sent.fetched.lastValidBlockHeight
          /\ sent.fetched \in windows
    /\ pc \in { "send", "await", "verifyDelay", "verify" } =>
          /\ sent.attempt = attempt
          /\ tx = sent.tx

\* a second attempt sends under a window that differs from the first one's
C2_Witness ==
    /\ pc = "send"
    /\ attempt = 2
    /\ signature # ""
    /\ signature # SignatureOf(sent.tx)

SuccessToasts == { i \in DOMAIN toasts : toasts[i].kind = "success" }

\* C3: a submission that returns an identifier has emitted exactly one success
\* notification, which is the last notification of the submission, whatever
\* runs afterwards; a submission that has not returned has emitted none.
C3_OneSuccessLast ==
    /\ pc = "returned" <=> result # Null
    /\ pc = "returned" =>
          /\ Cardinality(SuccessToasts) = 1
          /\ toasts[Len(toasts)].kind = "success"
    /\ pc # "returned" => SuccessToasts = {}

\* returned on a retry while the watcher of an earlier attempt is still running
C3_Witness ==
    /\ pc = "returned"
    /\ attempt >= 2
    /\ \E k \in DOMAIN watch : k < attempt /\ watch[k].inner # "done"

\* C4: when confirmTransaction threw and the fallback getSignatureStatus lookup
\* reports the transaction present without error before the deadline fired,
\* the confirmation promise is resolved, not rejected.
C4_FallbackResolves ==
    \A k \in DOMAIN watch :
        ( /\ watch[k].caught # Null
          /\ watch[k].lookup = "ok"
          /\ watch[k].timer # "fired" )
        => watch[k].promise = "resolved"

C4_Witness ==
    \E k \in DOMAIN watch :
        /\ watch[k].caught = "blockhash not found"
        /\ watch[k].lookup = "ok"
        /\ watch[k].timer = "cleared"
        /\ watch[k].promise = "resolved"

\* The fault carries a window-expiry marker
ExpiryFault(msg) ==
    \/ Includes(msg, "block height exceeded")
    \/ Includes(msg, "blockhash not found")
    \/ Includes(msg, "invalid blockhash")

\* In attempt k confirmTransaction threw a window-expiry fault and the
\* fallback lookup answered found, no error
ExpiryThenFound(k) ==
    /\ k \in DOMAIN watch
    /\ ExpiryFault(watch[k].caught)
    /\ watch[k].lookup = "ok"

\* submit returns the identifier of attempt k and does nothing further
ReturnsAttempt(k) ==
    /\ k = attempt
    /\ pc \in { "await", "returned" }
    /\ pc = "returned" => (result = sent.signature /\ result # Null)
    /\ sent.attempt = k
    /\ net.fetch = k
    /\ Len(delays) = k - 1

\* C5 as stated: if in attempt k the send succeeds, confirmTransaction throws a
\* window-expiry fault and the fallback lookup returns found with no error,
\* submit returns the identifier of attempt k with no further fetch, send or
\* backoff.
C5_Original ==
    \A k \in DOMAIN watch : ExpiryThenFound(k) => ReturnsAttempt(k)

\* C5, amended: the same, provided the fallback lookup answers before the
\* confirmation deadline of attempt k fires; for k = 1 that is one window fetch
\* and no backoff.
C5_FallbackReturnsAttemptId ==
    \A k \in DOMAIN watch :
        (ExpiryThenFound(k) /\ watch[k].timer # "fired") => ReturnsAttempt(k)

C5_Witness ==
    /\ pc = "returned"
    /\ attempt = 2
    /\ ExpiryThenFound(2)
    /\ watch[2].timer = "cleared"
    /\ result = sent.signature

\* C6: with maxRetries = N >= 1, when every attempt fails with a retryable
\* window-expiry fault thrown by the send or by the confirmation, submit fails
\* after exactly N window fetches, N sends and N-1 backoff delays; a backoff
\* is started only by a failed attempt that is followed by a further window
\* fetch: none before the first attempt, none after the last.
C6_ExhaustionCounts ==
    /\ ( /\ pc = "thrown"
         /\ maxRetries >= 1
         /\ attempt >= 1
         /\ failed.expiry = attempt
         /\ failed.send + failed.confirm = attempt )
       => /\ attempt = maxRetries
          /\ net.fetch = maxRetries
          /\ net.send = maxRetries
          /\ Len(delays) = maxRetries - 1
          /\ thrown = lastError
    /\ pc = "backoff" =>
          /\ attempt < maxRetries
          /\ Len(delays) = attempt
          /\ net.fetch = attempt
          /\ failed.wallet + failed.fetch + failed.send + failed.confirm = attempt
    /\ pc # "backoff" =>
          Len(delays) = IF net.fetch = 0 THEN 0 ELSE net.fetch - 1

C6_Witness ==
    /\ pc = "thrown"
    /\ maxRetries = 3
    /\ failed.expiry = 3
    /\ failed.send >= 1
    /\ failed.confirm >= 1
    /\ failed.send + failed.confirm = 3
    /\ Len(delays) = 2

\* C7: the delay before attempt n >= 2 is min(1000 * 2^(n-2), 8000) ms; the
\* delays never decrease and never exceed 8000 ms; the delay is the same
\* whether the attempt before failed at the send or at the confirmation.
C7_BackoffSchedule ==
    /\ \A i \in DOMAIN delays :
          LET n == i + 1
              uncapped == 1000 * 2 ^ (n - 2)
          IN  /\ delays[i] = IF uncapped < 8000 THEN uncapped ELSE 8000
              /\ delays[i] <= 8000
    /\ \A i, j \in DOMAIN delays : i <= j => delays[i] <= delays[j]
    /\ Len(delays) <= attempt

\* five backoffs, after failures at the send and at the confirmation; the
\* fifth is capped
C7_Witness ==
    /\ Len(delays) = 5
    /\ delays[4] = 8000
    /\ delays[5] = 8000
    /\ failed.send >= 1
    /\ failed.confirm >= 1

\* The fault carries neither a window-expiry marker nor a timeout marker
NeitherExpiryNorTimeout(msg) ==
    /\ ~ExpiryFault(msg)
    /\ ~Includes(ToLowerCase(msg), "timeout")

ErrorToasts == { i \in DOMAIN toasts : toasts[i].kind = "error" }

\* C8: an attempt that fails with a fault that is neither window-expired nor
\* timeout ends the submission, even if attempts remain: one error
\* notification is reported, the call fails with that fault, and no backoff,
\* window fetch or send follows.
C8_TerminalFault ==
    (lastError # Null /\ NeitherExpiryNorTimeout(lastError))
    => /\ pc = "thrown"
       /\ thrown = lastError
       /\ Cardinality(ErrorToasts) = 1
       /\ toasts[Len(toasts)].kind = "error"
       /\ net.fetch = attempt
       /\ Len(delays) = attempt - 1
       /\ sent.attempt <= attempt

C8_Witness ==
    /\ lastError = "insufficient funds for rent"
    /\ pc = "thrown"
    /\ attempt = 2
    /\ maxRetries = 3
    /\ failed.confirm = 1

ClassifiedRetryable(msg) ==
    getErrorMessage(msg) \in
        { "Transaction took too long to confirm. Please try again.",
          "Transaction expired. Please try again.",
          "Network timeout. Solana may be congested, please try again." }

\* C9: a failed attempt with attempts remaining is retried if and only if
\* getErrorMessage maps its fault to the window-expired or the timeout
\* category.
C9_RetryAgreesWithClassifier ==
    /\ pc = "backoff" => ClassifiedRetryable(lastError)
    /\ (pc = "thrown" /\ lastError # Null /\ attempt < maxRetries)
          => ~ClassifiedRetryable(lastError)

\* A confirmation signal of attempt k reported the transaction present with a
\* program-level error, before the deadline fired
ProgramErrorReported(k) ==
    /\ k \in DOMAIN watch
    /\ watch[k].timer # "fired"
    /\ \/ watch[k].reason = ConfirmedButFailedText
       \/ watch[k].lookup = "err"

\* C10: when confirmTransaction's result or the getSignatureStatus fallback
\* reports the transaction present with a program-level error, submit fails
\* terminally and sends nothing further, even if confirmTransaction also threw
\* a window-expiry fault and attempts remain.
C10_ProgramErrorIsTerminal ==
    \A k \in DOMAIN watch :
        ProgramErrorReported(k)
        => /\ k = attempt
           /\ pc \in { "await", "verifyDelay", "verify", "thrown" }
           /\ Len(delays) = k - 1

\* C11: if in an attempt whose send succeeded the maxTimeout timer fires
\* before confirmTransaction or the fallback lookup has settled the promise,
\* submit fails with the confirmation-timeout error and performs no further
\* window fetch or send.
C11_DeadlineIsTerminal ==
    \A k \in DOMAIN watch :
        (watch[k].timer = "fired" /\ watch[k].reason = ConfirmTimeoutText)
        => /\ k = attempt
           /\ pc \in { "await", "thrown" }
           /\ pc = "thrown" => thrown = ConfirmTimeoutText
           /\ net.fetch = k
           /\ Len(delays) = k - 1

\* C12: if wallet.publicKey is absent at the re-check before the send of
\* attempt k, wallet.sendTransaction is not called in attempt k, submit fails
\* with the wallet-disconnected error and the wallet error notification, and
\* no later attempt starts, whatever retries remain.
C12_DisconnectIsTerminal ==
    /\ ~walletPk => pc \in { "start", "fetch", "backoff", "thrown" }
    /\ failed.wallet > 0 =>
          /\ pc = "thrown"
          /\ thrown = DisconnectedText
          /\ lastError = DisconnectedText
          /\ failed.wallet = 1
          /\ sent.attempt < attempt
          /\ net.send < attempt
          /\ net.fetch = attempt
          /\ Len(delays) = attempt - 1
          /\ toasts[Len(toasts)] =
                [kind |-> "error", msg |-> WalletErrorText, active |-> TRUE]

C12_Witness ==
    /\ pc = "thrown"
    /\ thrown = DisconnectedText
    /\ attempt = 2
    /\ maxRetries = 3
    /\ net.send = 1

\* C13: on every failing path the error the caller receives carries the
\* classifier's message for the fault, never the raw fault thrown by the
\* network or the wallet.
C13_FailuresAreClassified ==
    (pc = "thrown" /\ lastError \in faults)
    => /\ thrown = getErrorMessage(lastError)
       /\ thrown # lastError

TerminalToasts == { i \in DOMAIN toasts : toasts[i].kind \in { "success", "error" } }

ActiveLoading ==
    { i \in DOMAIN toasts : toasts[i].kind = "loading" /\ toasts[i].active }

\* C14: a submission that has ended has shown exactly one terminal
\* notification (success or error), and every loading notification it raised
\* has been dismissed.
C14_OneTerminalAllDismissed ==
    pc \in { "returned", "thrown" }
    => /\ Cardinality(TerminalToasts) = 1
       /\ ActiveLoading = { }

\* C15: at most one loading notification of the submission is active at any
\* time.
C15_OneActiveLoading == Cardinality(ActiveLoading) <= 1

\* Which notification of the submission a toast is
Phase(t) ==
    IF t.kind # "loading" THEN t.kind
    ELSE IF t.msg = PreparingText THEN "preparing"
    ELSE IF t.msg = ConfirmingText THEN "confirming"
    ELSE IF t.msg = VerifyingText THEN "verifying"
    ELSE IF Includes(t.msg, "Please approve transaction") THEN "approve"
    ELSE IF Includes(t.msg, "Retrying with fresh blockhash") THEN "retrying"
    ELSE "other"

Phases == [i \in DOMAIN toasts |-> Phase(toasts[i])]

IsNamedPhase(ph) ==
    ph \in { "preparing", "retrying", "confirming", "success", "error" }

\* The preparing, retrying, confirming and terminal notifications, in order
NamedPhases == SelectSeq(Phases, IsNamedPhase)

Follows(ph) ==
    CASE ph = "preparing"  -> { "approve", "retrying", "error" }
      [] ph = "approve"    -> { "confirming", "retrying", "error" }
      [] ph = "confirming" -> { "verifying", "retrying", "success", "error" }
      [] ph = "verifying"  -> { "retrying", "success", "error" }
      [] ph = "retrying"   -> { "approve", "retrying", "error" }
      [] OTHER             -> { }

CountPhase(ph) == Cardinality({ i \in DOMAIN toasts : Phases[i] = ph })

C17_OneAttemptInFlight ==
    \A k \in DOMAIN watch : k < attempt => watch[k].inner = "done"

\* C18: the attempt ordinal stays within 1..maxRetries, and neither the
\* number of window fetches nor the number of wallet.sendTransaction calls
\* exceeds maxRetries, whatever faults occur.
C18_AttemptsBounded ==
    /\ attempt \in 0 .. maxRetries
    /\ pc \in { "fetch", "send", "await", "verifyDelay", "verify", "backoff",
                "returned" } => attempt >= 1
    /\ net.fetch = attempt
    /\ net.send <= attempt
    /\ net.confirm <= net.send
    /\ sent.attempt <= attempt

C18_Witness ==
    /\ pc = "thrown"
    /\ maxRetries = 3
    /\ attempt = 3
    /\ net.fetch = 3
    /\ net.send = 3

\* C20: when submit fails on its last attempt, the error thrown is the last
\* error observed, the fault of that attempt; the generic unknown-reason error
\* is thrown only when no attempt recorded an error.
C20_LastErrorThrown ==
    /\ (pc = "thrown" /\ maxRetries >= 1 /\ attempt = maxRetries)
       => /\ lastError # Null
          /\ thrown = lastError
          /\ (attempt \in DOMAIN watch /\ failed.confirm > 0
                /\ sent.attempt = attempt /\ sent.signature # Null)
             => thrown = watch[attempt].reason
    /\ thrown = UnknownReasonText
       => /\ lastError = Null
          /\ failed = [wallet |-> 0, fetch |-> 0, send |-> 0, confirm |-> 0,
                       expiry |-> 0]
          /\ attempt = 0

\* the third attempt fails with another fault than the two before it
C20_Witness ==
    /\ pc = "thrown"
    /\ maxRetries = 3
    /\ attempt = 3
    /\ failed.expiry = 2
    /\ thrown = "insufficient funds for rent"
    /\ failed.confirm >= 2

Ended == pc \in { "returned", "thrown" }

\* C19: every call ends, with exactly one outcome, a returned identifier or a
\* thrown error, provided every getLatestBlockhash, sendTransaction and
\* getSignatureStatus call returns or throws and timers fire; a
\* confirmTransaction call that never returns does not prevent it.
C19_Terminates ==
    /\ <>Ended
    /\ [](pc = "returned" => (result # Null /\ thrown = Null))
    /\ [](pc = "thrown" => (result = Null /\ thrown # Null))
    /\ [](~Ended => (result = Null /\ thrown = Null))
    /\ [][Ended => (pc' = pc /\ result' = result /\ thrown' = thrown)]_vars

\* the call has ended although a confirmTransaction call never returned
C19_Witness ==
    /\ pc = "thrown"
    /\ attempt = 2
    /\ \E k \in DOMAIN watch :
          watch[k].inner = "confirm" /\ watch[k].timer = "fired"

\* C21: when getLatestBlockhash throws in an attempt while attempts remain,
\* the fault is retried, whatever its text: the call does not fail in an
\* attempt that ended at the window fetch unless it was the last one.
C21_FetchFaultRetried ==
    ~( /\ pc = "thrown"
       /\ attempt >= 1
       /\ attempt < maxRetries
       /\ failed.fetch >= 1
       /\ failed.wallet = 0
       /\ sent.attempt < attempt )

\* C26: with co-signers, at every wallet.sendTransaction call the co-signers'
\* signatures were made over the window bound to the transaction by the
\* current attempt; a signature over an earlier attempt's window is not sent.
C26_SignedOverBoundWindow ==
    (hasSigners /\ sent.attempt # 0)
    => /\ sent.tx.signedOver = sent.tx.recentBlockhash
       /\ sent.tx.signedOver = sent.fetched.blockhash
       /\ pc = "send" => (sent.attempt = attempt /\ tx = sent.tx)

\* the second attempt sends under another window than the first
C26_Witness ==
    /\ hasSigners
    /\ pc = "send"
    /\ attempt = 2
    /\ signature = "sig-1"
    /\ sent.tx.signedOver = 2

\* C27: no attempt changes the instruction list of the transaction; only the
\* window, the fee payer and the signatures change, and the fee payer is the
\* wallet's public key at every send.
C27_InstructionsUntouched ==
    /\ tx.instructions = << "ix1", "ix2" >>
    /\ tx.recentBlockhash \in { 0 } \cup { w.blockhash : w \in windows }
    /\ sent.attempt # 0
       => /\ sent.tx.instructions = << "ix1", "ix2" >>
          /\ sent.tx.feePayer = "wallet"
          /\ sent.tx.recentBlockhash = sent.fetched.blockhash
          /\ sent.tx.lastValidBlockHeight = sent.fetched.lastValidBlockHeight

C27_Witness ==
    /\ pc = "send"
    /\ attempt = 3
    /\ sent.tx.feePayer = "wallet"
    /\ Len(delays) = 2

\* C28: the confirmation promise of an attempt settles once: a settled promise
\* keeps its state and reason, whatever fires or answers later; a promise
\* settled by confirmTransaction or the fallback lookup has its timer
\* cleared, and a cleared timer never yields the timeout error.
C28_SettlesOnce ==
    /\ [][\A k \in DOMAIN watch :
            (k \in DOMAIN watch' /\ watch[k].promise # "pending")
            => /\ watch'[k].promise = watch[k].promise
               /\ watch'[k].reason = watch[k].reason
               /\ watch'[k].timer = watch[k].timer]_vars
    /\ [](\A k \in DOMAIN watch :
            /\ watch[k].promise = "pending"
               => (watch[k].timer = "armed" /\ watch[k].inner # "done")
            /\ watch[k].promise # "pending"
               => watch[k].timer \in { "cleared", "fired" }
            /\ watch[k].timer = "fired"
               => (watch[k].promise = "rejected"
                     /\ watch[k].reason = ConfirmTimeoutText)
            /\ watch[k].timer = "cleared"
               => watch[k].reason # ConfirmTimeoutText)

\* the fallback lookup answered found after the deadline had fired
C28_Witness ==
    /\ pc = "await"
    /\ attempt \in DOMAIN watch
    /\ watch[attempt].timer = "fired"
    /\ watch[attempt].inner = "done"
    /\ watch[attempt].lookup = "ok"
    /\ watch[attempt].promise = "rejected"

\* C30: submit sends no further transaction after an attempt whose
\* transaction can still land: not while the confirmation of an earlier
\* attempt, whose deadline fired, is still outstanding.
C30_NoSendWhileEarlierMayLand ==
    \A k \in DOMAIN watch :
        (watch[k].timer = "fired" /\ watch[k].inner \in { "confirm", "status" })
        => sent.attempt <= k

\* C25: every getLatestBlockhash call asks for the 'finalized' commitment,
\* whatever preflightCommitment and confirmCommitment the caller passed; those
\* go to wallet.sendTransaction and confirmTransaction only.
C25_WindowFetchedFinalized ==
    /\ net.fetch = 0 => fetchedAt = Null
    /\ net.fetch > 0 => fetchedAt = "finalized"
    /\ sent.attempt # 0
          => sent.preflightCommitment = options.preflightCommitment
    /\ confirming.signature # Null
          => confirming.commitment = options.confirmCommitment

\* a second window fetch for a caller who asked for other levels
C25_Witness ==
    /\ pc = "fetch"
    /\ attempt = 2
    /\ options.preflightCommitment = "confirmed"
    /\ options.confirmCommitment = "processed"
    /\ confirming.commitment = "processed"
    /\ fetchedAt = "finalized"

\* The rules of getErrorMessage, in the order of lines 272-288
MessageRules ==
    << << "block height exceeded",
          "Transaction took too long to confirm. Please try again." >>,
       << "blockhash not found", "Transaction expired. Please try again." >>,
       << "insufficient funds", "Insufficient funds for transaction." >>,
       << "rejected", "Transaction rejected by user." >>,
       << "user rejected", "You declined the transaction. Please try again." >>,
       << "already in use", "This transaction was already processed." >>,
       << "invalid account owner", "Invalid account owner." >> >>

\* The rules of a table whose substring occurs in the message
Matching(rules, msg) == { i \in DOMAIN rules : Includes(msg, rules[i][1]) }

FirstOf(S) == CHOOSE i \in S : \A j \in S : i <= j

\* The raw text a fallback answer embeds: what follows the fallback's prefix
EmbeddedRaw(text, prefix) == SubSeq(text, Len(prefix) + 1, Len(text))

\* C23: each classifier returns the text of the first rule, in table order,
\* whose substring occurs in the message, and when no rule matches its
\* fallback embeds at most 100 characters of the raw message (followed by
\* '...' when it was cut); this holds for getErrorMessage and for
\* getErrorForTransaction.
C23_FirstRuleWinsRawCapped ==
    shown.by # Null =>
        IF shown.by = "getErrorMessage"
        THEN LET m == Matching(MessageRules, rawMessage)
             IN  IF m # { } THEN shown.text = MessageRules[FirstOf(m)][2]
                 ELSE IF Includes(ToLowerCase(rawMessage), "timeout")
                 THEN shown.text =
                        "Network timeout. Solana may be congested, please try again."
                 ELSE /\ Includes(shown.text, "Transaction error: ")
                      /\ Len(EmbeddedRaw(shown.text, "Transaction error: ")) <= 100 + 3
        ELSE LET m == Matching(errorMap, rawMessage)
             IN  IF m # { } THEN shown.text = errorMap[FirstOf(m)][2]
                 ELSE IF Includes(rawMessage, "Attempt to load an invalid account")
                 THEN Includes(shown.text, "Invalid account specified")
                 ELSE /\ Includes(shown.text, "Transaction failed: ")
                      /\ Len(EmbeddedRaw(shown.text, "Transaction failed: ")) <= 100 + 3

\* C22: the mint and send handlers append to the history exactly one entry,
\* with status success and the returned identifier, for each submission that
\* resolved with an identifier, and none for a submission that failed or
\* that validation rejected; an entry once appended is never changed or
\* removed by them.
C22_OneEntryPerResolvedSubmission ==
    /\ [](/\ Len(history) = Len(settled)
          /\ \A k \in DOMAIN history :
                /\ history[k].id = settled[k].id
                /\ history[k].type = settled[k].by
                /\ history[k].status = "success")
    /\ [][/\ Len(history') \in { Len(history), Len(history) + 1 }
          /\ \A k \in DOMAIN history : history'[k] = history[k]
          /\ Len(history') = Len(history) + 1
               => \E c \in Components :
                    /\ ui[c].pc = "op" /\ ui'[c].pc = "idle"
                    /\ ui'[c].signature = history'[Len(history')].id
                    /\ history'[Len(history')].type = c]_vars

\* a mint and a send were recorded, a second mint failed and a second send
\* was rejected by validation
C22_Witness ==
    /\ Len(history) = 2
    /\ { history[k].type : k \in DOMAIN history } = Components
    /\ ui["mint"].runs = 2 /\ ui["mint"].pc = "idle"
    /\ ui["send"].runs = 2
    /\ { "mint-error", "amount-error" } \subseteq DOMAIN ui.toasts

\* C29: the two implementations of sendTransactionWithRetry differ in the
\* identity re-checks only: called with the same options, with the wallet's
\* public key present throughout and given the same answers, they make the
\* same window fetches, sends and backoff delays and end with the same
\* outcome.
C29_DuplicateDiffersInIdentityChecksOnly ==
    (twin.strict.run.pc = "done" /\ twin.loose.run.pc = "done")
        => Outcome(twin.strict) = Outcome(twin.loose)

\* C24: whatever the interleaving, each of two concurrent calls on distinct
\* transaction objects has the attempt count, the windows fetched and bound,
\* the identifiers, the delays and the outcome it has when it runs alone and
\* is given the same answers; the calls share the toasts only.
C24_ConcurrentCallsDoNotInterfere ==
    \A i \in Calls :
        LET here  == World(pair.subs[i], pair.objs[TransactionOf(i)], pair.sink)
            alone == Alone(i, pair.subs[i].maxRetries, pair.subs[i].hasSigners,
                           pair.heard[i])
        IN  /\ Outcome(here) = Outcome(alone)
            /\ here.run.pc = alone.run.pc
            /\ here.run.success = alone.run.success
            /\ here.run.lastError = alone.run.lastError
            /\ here.run.signature = alone.run.signature
            /\ here.run.window = alone.run.window

\* both calls have ended after a retry each, on different windows, and their
\* toasts are interleaved
C24_Witness ==
    /\ \A i \in Calls : pair.subs[i].pc = "done" /\ pair.subs[i].attempt = 2
    /\ pair.subs[1].result # Null
    /\ pair.subs[2].thrown # Null
    /\ pair.objs[1].recentBlockhash # pair.objs[2].recentBlockhash
    /\ \A i \in Calls : Made(pair.sink, i) # { }
    /\ pair.subs[1].fetched # pair.subs[2].fetched

CarriesWalletMarker(msg) ==
    \/ Includes(msg, "Wallet is not connected")
    \/ Includes(msg, "Wallet disconnected")
    \/ Includes(msg, "wallet adapter")

CarriesRetryMarker(msg) ==
    \/ Includes(msg, "timeout")
    \/ Includes(msg, "block height exceeded")
    \/ Includes(msg, "blockhash not found")
    \/ Includes(msg, "invalid blockhash")

\* C31: a fault caught in an attempt whose text carries a wallet marker is
\* never retried, even when the text also carries a retryable marker and
\* attempts remain: the call ends at once, one error notification (the wallet
\* one) is shown, the fault is rethrown, and no backoff or fetch follows.
C31_WalletMarkerTakesPrecedence ==
    (lastError # Null /\ CarriesWalletMarker(lastError))
    => /\ pc = "thrown"
       /\ thrown = lastError
       /\ Cardinality(ErrorToasts) = 1
       /\ toasts[Len(toasts)] =
             [kind |-> "error", msg |-> WalletErrorText, active |-> TRUE]
       /\ net.fetch = attempt
       /\ Len(delays) = attempt - 1

\* a fault with a wallet marker and a retryable marker ended the call while
\* attempts remained
C31_Witness ==
    /\ pc = "thrown"
    /\ CarriesWalletMarker(thrown)
    /\ CarriesRetryMarker(thrown)
    /\ thrown = lastError
    /\ attempt < maxRetries

\* C32: every rule of getErrorMessage is reachable: for each rule, the 'user
\* rejected' one included, some fault text is answered with that rule's
\* message; no rule comes after a rule whose substring occurs in its own; and
\* a text that holds a rule's substring and, of the earlier rules, only
\* substrings of it, is answered with that rule's message.
C32_EveryRuleReachable ==
    shown.by = "getErrorMessage"
    => /\ \A i \in DOMAIN MessageRules :
             \E m \in RawMessages : getErrorMessage(m) = MessageRules[i][2]
       /\ \A i \in DOMAIN MessageRules :
             \A j \in 1 .. (i - 1) :
                ~Includes(MessageRules[i][1], MessageRules[j][1])
       /\ \A i \in DOMAIN MessageRules :
             (/\ Includes(rawMessage, MessageRules[i][1])
              /\ \A j \in 1 .. (i - 1) :
                    Includes(MessageRules[i][1], MessageRules[j][1])
                    \/ ~Includes(rawMessage, MessageRules[j][1]))
             => shown.text = MessageRules[i][2]

\* C33: in sendTokenTransaction every confirmTransaction call is made with the
\* window bound to the transaction that was just sent, also after a 'blockhash
\* not found' failure made it fetch and bind a new window; and the co-signers'
\* signatures that were sent were computed over the window bound then.
C33_ConfirmsOverSentWindow ==
    token.confirming.signature # Null
    => /\ token.confirming.window.blockhash = token.sent.recentBlockhash
       /\ token.confirming.window.lastValidBlockHeight
              = token.sent.lastValidBlockHeight
       /\ token.hasSigners => token.sent.signedOver = token.sent.recentBlockhash

\* C34: sendTokenTransaction returns an identifier only when the transaction
\* was confirmed without a program-level error: not when confirmTransaction
\* reported an error in its value, not when the deadline fired first.
C34_ReturnsOnlyConfirmed ==
    token.pc = "returned"
    => /\ token.result = token.signature
       /\ token.landed = "confirmed"

\* C35: every failure leaving sendTokenTransaction is an Error whose message
\* is getErrorForTransaction of the raw fault message, on every failing path,
\* the initial window fetch included; and no loading notification of the call
\* is active then.
C35_FailuresAreTranslated ==
    token.pc = "thrown"
    => /\ token.thrown = getErrorForTransaction(
                             IF token.raw = "" THEN "Unknown error occurred"
                             ELSE token.raw)
       /\ \A i \in DOMAIN token.toasts :
             ~(token.toasts[i].kind = "loading" /\ token.toasts[i].active)

\* A window expiry or a network timeout
Transient(msg) == IsBlockhashError(msg) \/ Includes(ToLowerCase(msg), "timeout")

\* C36: sendTokenTransaction sends again only after a transient fault: every
\* send but the first follows a caught fault that was a window expiry or a
\* network timeout; and it sends at most maxRetries times.
C36_ResendsAfterTransientOnly ==
    /\ token.sends <= token.maxRetries
    /\ \A k \in 1 .. (token.sends - 1) : Transient(token.caught[k])

\* The three checks of mintTokens pass: the wallet's public key is present,
\* the mint's authority is that key, and the amount converts to an integer
MintChecksPass ==
    /\ minting.publicKey # Null
    /\ minting.authority = minting.publicKey
    /\ StringToBigInt(minting.rawAmount.text).ok

\* C37: mintTokens reaches sendTransactionWithRetry, so that a window is
\* fetched or something is sent, only when the wallet's public key is present,
\* the mint's authority equals it and the amount converts to an integer; when
\* a check fails it has thrown and no transaction was built or sent.
C37_ChecksBeforeSend ==
    /\ (minting.entered \/ minting.built \/ minting.run.run.fetched # << >>
            \/ minting.run.run.sends # << >>)
       => MintChecksPass
    /\ (~MintChecksPass /\ minting.pc \notin { "called", "getMint" })
       => /\ minting.pc = "thrown"
          /\ ~minting.built /\ ~minting.entered
          /\ minting.run = NotSent

C37_Witness ==
    /\ minting.pc = "returned"
    /\ minting.rawAmount = [isNumber |-> TRUE, text |-> "1000"]
    /\ minting.amount = 1000
    /\ Len(minting.run.run.sends) = 2

\* The loading notification the handler of form c raises at its start is on
\* the page
LoadingActive(c) ==
    /\ (c \o "-loading") \in DOMAIN ui.toasts
    /\ ui.toasts[c \o "-loading"].visible

\* C38: when the mint or the send handler has finished, on the success path
\* and on every failure path, its loading notification has been dismissed and
\* isLoading is false.  The error notification is shown by the step that
\* finishes the handler, so no loading notification of the handler is active
\* beside it either.
C38_LoadingDismissedAtFinish ==
    \A c \in Components :
        ui[c].pc = "idle" => ~ui[c].isLoading /\ ~LoadingActive(c)

\* C39: after any sequence of tracked toast creations, re-creations with an
\* existing id included, and dismissals, activeToasts holds at most 5 entries
\* and no two entries with the same id, and after toast.dismiss(id) it holds
\* no entry with that id.
C39_TrackedToastsBoundedDistinct ==
    LET list == tracker.activeToasts
    IN  /\ Len(list) <= ToastLimit
        /\ \A i, j \in DOMAIN list : list[i].id = list[j].id => i = j
        /\ tracker.dismissed # ""
           => \A i \in DOMAIN list : list[i].id # tracker.dismissed

====
